---- MODULE Spec2Model ----
(***************************************************************************)
(* Model of the decoders and file classes of armaio:                      *)
(*   - lzo1x_decompress          (src/src/armaio/compression.py)           *)
(*   - dxt1_decompress, dxt5_decompress (src/src/armaio/compression.py)    *)
(*   - decode_dxt1, decode_dxt5  (src/src/armaio/paa/_encoding.py)         *)
(*   - RtmFile                   (src/src/armaio/rtm/_rtm.py)              *)
(*   - the LZ-Flag decompressor                                            *)
(*   - TexHeadersFile            (src/src/armaio/texheaders/__init__.py)   *)
(*   - P3dLod                    (src/src/armaio/p3d/__init__.py)          *)
(*                                                                         *)
(* The binary stream of a decoder is modelled by its size and its          *)
(* position; the bytes it holds are chosen when they are read (no byte is  *)
(* ever read twice), which covers every stream over the byte sets below.   *)
(***************************************************************************)
EXTENDS Integers, Sequences, FiniteSets, TLC

VARIABLES
    pc,               \* position in lzo1x_decompress
    x,                \* current command byte
    state,            \* carried state
    output,           \* the output bytearray
    length,           \* length being accumulated by get_length
    pos,              \* stream.tell()
    start,            \* stream position at call time
    size,             \* size of the stream
    expected_length,  \* argument
    err,              \* exception raised ("none" while running)
    ret,              \* consumed count returned (-1 until returned)
    op,               \* history: the last copy the decompressor attempted
    data,             \* history: the bytes stream.read has delivered
    markerEnd,        \* history: stream position right after the end marker
    \* The DXT decoders
    fn,               \* the decoder called
    dpc,              \* position in the decoder
    width,            \* argument
    height,           \* argument
    dsize,            \* size of the stream (len(data) for the paa decoders)
    dpos,             \* stream.tell()
    blk,              \* number of blocks decoded: brow * block_count_w + bcol
    buf,              \* the float arrays being filled
    result,           \* the value returned
    derr,             \* exception raised ("none" while running)
    block,            \* history: the bytes, ramps and codes of the last block
    ddata,            \* history: the bytes of the blocks read so far
    stores,           \* history: the pixel indices stored to, in order
    \* An RtmFile
    origin,           \* "none" before there is an RtmFile, "RtmFile" since
    props,            \* RtmFile._props
    frames,           \* RtmFile._frames
    bones,            \* RtmFile._bones
    rop,              \* history: the last call, what it raised and returned
    \* The LZ-Flag decompressor
    fpc,              \* position in the decompressor
    foutput,          \* the output buffer
    fexpected,        \* argument expected_length
    checksum_signed,  \* argument
    flag,             \* the current flag byte
    bit,              \* the bits of the flag byte used up
    fpos,             \* input bytes consumed
    fsize,            \* size of the input
    fsum,             \* the running sum, as the 4 bytes of a 32-bit value
    checksum,         \* the trailing 4 bytes read (<<>> before)
    ferr,             \* failure ("none" while running)
    fret,             \* consumed count returned (-1 until returned)
    \* A TexHeadersFile
    torigin,          \* "none" before there is a TexHeadersFile
    textures,         \* TexHeadersFile._textures
    paths,            \* TexHeadersFile._paths
    top,              \* history: the last call, what it raised and returned
    \* P3dLod.read and P3dLod.validate
    ppc,              \* position in P3dLod.read
    keep_unknown_taggs,  \* argument
    lod,              \* the counts and faces of the P3dLod
    taggs,            \* P3dLod._taggs
    pstream,          \* the TAGGs of the stream that have been looked at
    ppos,             \* the TAGGs of the stream the position is past
    tname,            \* name in _read_tagg
    perr,             \* exception raised ("none" while running)
    valid             \* what validate returned (FALSE before)

lzoVars == <<pc, x, state, output, length, pos, start, size, expected_length,
             err, ret, op, data, markerEnd>>
dxtVars == <<fn, dpc, width, height, dsize, dpos, blk, buf, result, derr,
             block, ddata, stores>>
rtmVars == <<origin, props, frames, bones, rop>>
flagVars == <<fpc, foutput, fexpected, checksum_signed, flag, bit, fpos,
              fsize, fsum, checksum, ferr, fret>>
texVars == <<torigin, textures, paths, top>>
p3dVars == <<ppc, keep_unknown_taggs, lod, taggs, pstream, ppos, tname, perr,
             valid>>
\* What a call of one component leaves alone: the state of the others.
notLzo == <<dxtVars, rtmVars, flagVars, texVars, p3dVars>>
notDxt == <<lzoVars, rtmVars, flagVars, texVars, p3dVars>>
notRtm == <<lzoVars, dxtVars, flagVars, texVars, p3dVars>>
notFlag == <<lzoVars, dxtVars, rtmVars, texVars, p3dVars>>
notTex == <<lzoVars, dxtVars, rtmVars, flagVars, p3dVars>>
notP3d == <<lzoVars, dxtVars, rtmVars, flagVars, texVars>>

(***************************************************************************)
(* Bounds of the model                                                     *)
(***************************************************************************)
MaxStream == 7     \* longest compressed region, in bytes
MaxExpected == 5   \* largest expected_length
MaxBlocks == 2     \* most blocks of a texture

\* Command bytes: every branch of the command loop, both first-byte cases,
\* zero and nonzero length fields, every value of the state bits.
CmdBytes == {0, 1, 4, 16, 17, 18, 19, 21, 25, 32, 34, 64, 68, 128}
\* Bytes at every other stream position (literals, distance bytes, length
\* extension bytes).
ArgBytes == {0, 1, 255}
\* Stream positions at call time.
StartPositions == {0, 2}

(***************************************************************************)
(* Python helpers                                                          *)
(***************************************************************************)
MinOf(a, b) == IF a < b THEN a ELSE b
MaxOf(a, b) == IF a > b THEN a ELSE b

\* Normalisation of a slice bound against a sequence of n items.
PyIndex(i, n) == IF i < 0 THEN MaxOf(i + n, 0) ELSE MinOf(i, n)

\* s[lo:hi]
PySlice(s, lo, hi) ==
    LET a == PyIndex(lo, Len(s))
        b == PyIndex(hi, Len(s))
    IN  IF a < b THEN SubSeq(s, a + 1, b) ELSE <<>>

\* s[lo:]
PySliceFrom(s, lo) ==
    LET a == PyIndex(lo, Len(s))
    IN  SubSeq(s, a + 1, Len(s))

\* s * k
RECURSIVE PyRepeat(_, _)
PyRepeat(s, k) == IF k <= 0 THEN <<>> ELSE s \o PyRepeat(s, k - 1)

\* Number of bytes stream.read(k) delivers at position p.
Avail(p, k) == MinOf(k, size - p)

\* Mutant of Tell: a read does not advance the stream.
Tell_stuck(p, k) == p

\* Stream position after a read that delivered k bytes at position p.
Tell(p, k) == p + k

(***************************************************************************)
(* lzo1x_decompress                                                        *)
(***************************************************************************)
EndDistance == 16384
FarBit == 2048

\* History record of a copy: the command byte, the kind of copy, its distance
\* and length, and the output before it.
NoOp == [cmd |-> 0, kind |-> "none", distance |-> 0, length |-> 0,
         before |-> <<>>]
CopyOp(kind, distance, len) ==
    [cmd |-> x', kind |-> kind, distance |-> distance, length |-> len,
     before |-> output]

\* Mutant of check_free_space: the comparison is off by one.
check_free_space_off_by_one(out, len) == expected_length - Len(out) + 1 < len

\* check_free_space: TRUE when it raises.
check_free_space(out, len) == expected_length - Len(out) < len

\* Mutant of copy_match: the match is copied as one slice of the output.
copy_match_bulk_slice(out, distance, len) ==
    LET st == Len(out) - distance
    IN  out \o PySlice(out, st, st + len)

\* copy_match, after its call of check_free_space.
copy_match(out, distance, len) ==
    LET st == Len(out) - distance
        whole == out \o PyRepeat(PySliceFrom(out, st), len \div distance)
    IN  whole \o PySlice(whole, st, st + (len % distance))

Raise(e) ==
    /\ pc' = "raised"
    /\ err' = e

\* The step has read the bytes rd and leaves the stream after them.
Consume(rd) ==
    /\ pos' = Tell(pos, Len(rd))
    /\ data' = data \o rd

\* Mutant of Finish: the output length is not checked.
Finish_unchecked(p) ==
    /\ pc' = "done"
    /\ err' = err
    /\ ret' = p - start

\* Mutant of Finish: the position at call time is not subtracted.
Finish_absolute(p) ==
    IF expected_length - Len(output) # 0
    THEN /\ Raise("LzoError")
         /\ ret' = ret
    ELSE /\ pc' = "done"
         /\ err' = err
         /\ ret' = p

\* The final check of the output length and the return.
Finish(p) ==
    IF expected_length - Len(output) # 0
    THEN /\ Raise("LzoError")
         /\ ret' = ret
    ELSE /\ pc' = "done"
         /\ err' = err
         /\ ret' = p - start

\* check_free_space(n); output.extend(stream.read(n)), the step having read
\* the bytes rd before; st is the state assigned after the copy.
Literals(kind, n, rd, st) ==
    IF check_free_space(output, n)
    THEN /\ Raise("LzoError")
         /\ op' = CopyOp(kind, 0, n)
         /\ Consume(rd)
         /\ UNCHANGED <<output, state, ret, markerEnd>>
    ELSE \E lit \in [1..Avail(Tell(pos, Len(rd)), n) -> ArgBytes] :
            /\ output' = output \o lit
            /\ op' = CopyOp(kind, 0, n)
            /\ Consume(rd \o lit)
            /\ state' = st
            /\ pc' = "next"
            /\ UNCHANGED <<err, ret, markerEnd>>

\* state = st; copy_match(distance, len), the step having read the bytes rd.
Match(distance, len, st, rd) ==
    /\ Consume(rd)
    /\ state' = st
    /\ UNCHANGED <<ret, markerEnd>>
    /\ IF check_free_space(output, len)
       THEN /\ Raise("LzoError")
            /\ op' = CopyOp("match", distance, len)
            /\ UNCHANGED output
       ELSE /\ output' = copy_match(output, distance, len)
            /\ op' = CopyOp("match", distance, len)
            /\ pc' = "trail"
            /\ err' = err

\* A read of k bytes that finds the stream exhausted, the step having read
\* the bytes rd before: stream.read(1)[0] raises IndexError, unpack of a short
\* buffer raises struct.error.
Exhausted(e, rd, k) ==
    /\ Raise(e)
    /\ \E rest \in [1..Avail(Tell(pos, Len(rd)), k) -> ArgBytes] :
          Consume(rd \o rest)
    /\ UNCHANGED <<output, state, ret, op, markerEnd>>

\* x <= 15 and state == 0, once get_length has returned len.
LiteralRun(len, rd) == Literals("literal", 3 + len, rd, 4)

\* Mutant of M3Distance: the distance is taken from one byte of the word.
M3Distance_one_byte(extra) == (extra % 256) + 1

\* 32 <= x <= 63, once get_length has returned len.
M3Distance(extra) == (extra \div 4) + 1
M3Match(len, rd) ==
    IF Avail(Tell(pos, Len(rd)), 2) < 2
    THEN Exhausted("struct.error", rd, 2)
    ELSE \E b0 \in ArgBytes, b1 \in ArgBytes :
            LET extra == b0 + 256 * b1
            IN  Match(M3Distance(extra), 2 + len, extra % 4, rd \o <<b0, b1>>)

\* Mutant of InvalidEnd: the length at distance 16384 is not checked.
InvalidEnd_unchecked(len) == FALSE

\* The length check at distance 16384: TRUE when it raises.
InvalidEnd(len) == len # 3

\* Mutant of M4Distance: bit 3 of the command is shifted one bit too far.
M4Distance_wide(cmd, extra) ==
    EndDistance + (((cmd \div 8) % 2) * 8) * (2 * FarBit) + (extra \div 4)

\* 16 <= x <= 31, once get_length has returned len.
M4Distance(cmd, extra) ==
    EndDistance + (((cmd \div 8) % 2) * 8) * FarBit + (extra \div 4)
M4Match(len, rd) ==
    IF Avail(Tell(pos, Len(rd)), 2) < 2
    THEN Exhausted("struct.error", rd, 2)
    ELSE \E b0 \in ArgBytes, b1 \in ArgBytes :
            LET extra == b0 + 256 * b1
                distance == M4Distance(x, extra)
                all == rd \o <<b0, b1>>
            IN  IF distance = EndDistance
                THEN /\ Consume(all)
                     /\ state' = extra % 4
                     /\ op' = CopyOp("end", distance, 2 + len)
                     /\ UNCHANGED output
                     /\ IF InvalidEnd(2 + len)
                        THEN /\ Raise("LzoError")
                             /\ UNCHANGED <<ret, markerEnd>>
                        ELSE /\ markerEnd' = Tell(pos, Len(all))
                             /\ Finish(Tell(pos, Len(all)))
                ELSE Match(distance, 2 + len, extra % 4, all)

\* What follows get_length(x, mask) returning len.
AfterLength(len, rd) ==
    IF x <= 15 THEN LiteralRun(len, rd)
    ELSE IF x > 31 THEN M3Match(len, rd)
    ELSE M4Match(len, rd)

\* Mutant of MaskOf: a command byte below 16 passes the mask of the commands
\* 32..63.
MaskOf_low_as_31(cmd) == IF cmd > 31 \/ cmd <= 15 THEN 31 ELSE 7

\* The mask the command byte passes to get_length.
MaskOf(cmd) == IF cmd <= 15 THEN 15 ELSE IF cmd > 31 THEN 31 ELSE 7

\* x = stream.read(1)[0]; if x > 17: the first literal run.
FirstByte ==
    /\ UNCHANGED notLzo
    /\ pc = "first"
    /\ UNCHANGED <<start, size, expected_length, length>>
    /\ IF Avail(pos, 1) < 1
       THEN /\ Exhausted("IndexError", <<>>, 1)
            /\ x' = x
       ELSE \E b \in CmdBytes :
               /\ x' = b
               /\ IF b > 17
                  THEN Literals("literal", b - 17, <<b>>, MinOf(4, b - 17))
                  ELSE /\ pc' = "loop"
                       /\ Consume(<<b>>)
                       /\ UNCHANGED <<state, output, err, ret, op, markerEnd>>

\* One iteration of the command loop, up to and including its copy.
Command ==
    /\ UNCHANGED notLzo
    /\ pc = "loop"
    /\ UNCHANGED <<x, start, size, expected_length>>
    /\ IF x <= 15 /\ state # 0
       THEN /\ length' = length
            /\ IF state > 4
               THEN /\ pc' = "next"
                    /\ UNCHANGED <<state, output, pos, data, err, ret, op,
                                   markerEnd>>
               ELSE IF Avail(pos, 1) < 1
               THEN Exhausted("IndexError", <<>>, 1)
               ELSE \E b \in ArgBytes :
                       Match((b * 4) + (x \div 4)
                                + (IF state < 4 THEN 1 ELSE 2049),
                             IF state < 4 THEN 2 ELSE 3,
                             x % 4, <<b>>)
       ELSE IF x > 63
       THEN /\ length' = length
            /\ IF Avail(pos, 1) < 1
               THEN Exhausted("IndexError", <<>>, 1)
               ELSE \E b \in ArgBytes :
                       Match((b * 8) + ((x \div 4) % 8) + 1,
                             IF x > 127 THEN 5 + ((x \div 32) % 4)
                                        ELSE 3 + ((x \div 32) % 2),
                             x % 4, <<b>>)
       ELSE IF x % (MaskOf(x) + 1) # 0
       THEN /\ length' = x % (MaskOf(x) + 1)
            /\ AfterLength(x % (MaskOf(x) + 1), <<>>)
       ELSE /\ length' = 0
            /\ pc' = "get_length"
            /\ UNCHANGED <<state, output, pos, data, err, ret, op, markerEnd>>

\* One iteration of the loop of get_length.
GetLength ==
    /\ UNCHANGED notLzo
    /\ pc = "get_length"
    /\ UNCHANGED <<x, start, size, expected_length>>
    /\ IF Avail(pos, 1) < 1
       THEN /\ Exhausted("IndexError", <<>>, 1)
            /\ length' = length
       ELSE \E b \in ArgBytes :
               IF b # 0
               THEN /\ length' = length + MaskOf(x) + b
                    /\ AfterLength(length + MaskOf(x) + b, <<b>>)
               ELSE /\ length' = length + 255
                    /\ Consume(<<b>>)
                    /\ UNCHANGED <<pc, state, output, err, ret, op, markerEnd>>

\* check_free_space(state); output.extend(stream.read(state))
Trailing ==
    /\ UNCHANGED notLzo
    /\ pc = "trail"
    /\ UNCHANGED <<x, start, size, expected_length, length>>
    /\ Literals("trailing", state, <<>>, state)

\* x = stream.read(1)[0] that ends an iteration (and the first literal run).
NextByte ==
    /\ UNCHANGED notLzo
    /\ pc = "next"
    /\ UNCHANGED <<start, size, expected_length, length>>
    /\ IF Avail(pos, 1) < 1
       THEN /\ Exhausted("IndexError", <<>>, 1)
            /\ x' = x
       ELSE \E b \in CmdBytes :
               /\ x' = b
               /\ pc' = "loop"
               /\ Consume(<<b>>)
               /\ UNCHANGED <<state, output, err, ret, op, markerEnd>>

InitLzo ==
    /\ pc = "first"
    /\ x = 0
    /\ state = 0
    /\ output = <<>>
    /\ length = 0
    /\ start \in StartPositions
    /\ pos = start
    /\ size \in start..(start + MaxStream)
    /\ expected_length \in 0..MaxExpected
    /\ err = "none"
    /\ ret = -1
    /\ op = NoOp
    /\ data = <<>>
    /\ markerEnd = -1

NextLzo ==
    \/ FirstByte
    \/ Command
    \/ GetLength
    \/ Trailing
    \/ NextByte

(***************************************************************************)
(* The DXT decoders.  Arithmetic on floats is modelled by exact arithmetic *)
(* on fractions <<numerator, denominator>> in lowest terms.  The integers  *)
(* unpacked from a block are read bit by bit from its bytes (little        *)
(* endian), as the 32-bit and 64-bit tables do not fit the checker's       *)
(* integers.                                                               *)
(***************************************************************************)
RECURSIVE Gcd(_, _)
Gcd(a, b) == IF b = 0 THEN a ELSE Gcd(b, a % b)

\* n / d
Q(n, d) == LET g == Gcd(n, d) IN <<n \div g, d \div g>>
QAdd(p, q) == Q(p[1] * q[2] + q[1] * p[2], p[2] * q[2])
QMul(p, q) == Q(p[1] * q[1], p[2] * q[2])
Zero == Q(0, 1)
One == Q(1, 1)

RECURSIVE Pow2(_)
Pow2(k) == IF k = 0 THEN 1 ELSE 2 * Pow2(k - 1)

\* Bit k of the little-endian integer unpacked from bytes.
Bit(bytes, k) == (bytes[(k \div 8) + 1] \div Pow2(k % 8)) % 2

\* (v >> shift) & (2^bits - 1) of the little-endian integer v unpacked from
\* bytes.
RECURSIVE Field(_, _, _)
Field(bytes, shift, bits) ==
    IF bits = 0 THEN 0
    ELSE Bit(bytes, shift) + 2 * Field(bytes, shift + 1, bits - 1)

\* struct '<H' at byte offset o (from 0).
U16(bytes, o) == bytes[o + 1] + 256 * bytes[o + 2]

\* array('f', bytearray(4 * n)): n floats, all zero.
Floats(n) == [i \in 1..n |-> Zero]

\* numpy: round(v * 255) to the nearest integer, ties to even.
ToByte(v) ==
    LET n == 255 * v[1]
        q == n \div v[2]
        r == n % v[2]
    IN  IF 2 * r < v[2] THEN q
        ELSE IF 2 * r > v[2] THEN q + 1
        ELSE IF q % 2 = 0 THEN q ELSE q + 1

Decoders == {"dxt1_decompress", "dxt5_decompress", "decode_dxt1",
             "decode_dxt5"}
IsDxt5(f) == f \in {"dxt5_decompress", "decode_dxt5"}
IsPaa(f) == f \in {"decode_dxt1", "decode_dxt5"}

\* Bytes of one block.
BlockBytes(f) == IF IsDxt5(f) THEN 16 ELSE 8

\* Blocks the model feeds the decoders: the two colour endpoints (greater,
\* smaller, equal; channels of different values), the colour code table, the
\* alpha endpoints (greater, smaller, equal) and the alpha code table.
ColourEndpoints == {<<255, 255, 67, 8>>, <<67, 8, 255, 255>>, <<67, 8, 67, 8>>}
CodeTables == {<<228, 0, 0, 0>>, <<27, 0, 0, 108>>}
AlphaEndpoints == {<<255, 0>>, <<51, 204>>, <<51, 51>>}
AlphaTables == {<<136, 198, 250, 119, 57, 5>>}
ColourBlocks == {e \o t : e \in ColourEndpoints, t \in CodeTables}
AlphaBlocks == {e \o t : e \in AlphaEndpoints, t \in AlphaTables}
AllBlocks(f) ==
    IF IsDxt5(f) THEN {a \o c : a \in AlphaBlocks, c \in ColourBlocks}
    ELSE ColourBlocks
\* The blocks of the square texture: first endpoint greater, and not greater.
SquareBlocks(f) ==
    IF IsDxt5(f)
    THEN {<<255, 0, 136, 198, 250, 119, 57, 5, 255, 255, 67, 8, 228, 0, 0, 0>>,
          <<51, 204, 136, 198, 250, 119, 57, 5, 67, 8, 255, 255, 27, 0, 0,
            108>>}
    ELSE {<<255, 255, 67, 8, 228, 0, 0, 0>>, <<67, 8, 255, 255, 27, 0, 0, 108>>}
\* Textures of at most MaxBlocks blocks, and one square texture of two rows
\* of two blocks.
IsSquare(w, h) == w = 8 /\ h = 8
Blocks(f, w, h) ==
    IF (w \div 4) * (h \div 4) <= MaxBlocks THEN AllBlocks(f)
    ELSE SquareBlocks(f)

\* Expanding directly stored colors: <<r, g, b>> of a packed endpoint.
Expand(v) == <<Q(v \div 2048, 31), Q((v \div 32) % 64, 63), Q(v % 32, 31)>>

\* coef_a * p + coef_b * q on each channel.
Blend(ca, p, cb, q) ==
    [i \in 1..3 |-> QAdd(QMul(ca, p[i]), QMul(cb, q[i]))]

\* Mutant of Half: the sum is not halved.
Half_unscaled(p, q) == [i \in 1..3 |-> QAdd(p[i], q[i])]

\* 0.5 * (p + q) on each channel.
Half(p, q) == [i \in 1..3 |-> QMul(Q(1, 2), QAdd(p[i], q[i]))]

\* Color interpolation: colours 2 and 3 of the ramp (the same code in the
\* four decoders).  FourColour_or_equal is a mutant of the comparison: equal
\* endpoints take the four-colour branch.
FourColour_or_equal(v0, v1) == v0 >= v1
FourColour(v0, v1) == v0 > v1
Colour2(v0, v1) ==
    IF FourColour(v0, v1)
    THEN Blend(Q(2, 3), Expand(v0), Q(1, 3), Expand(v1))
    ELSE Half(Expand(v0), Expand(v1))
Colour3(v0, v1) ==
    IF FourColour(v0, v1)
    THEN Blend(Q(1, 3), Expand(v0), Q(2, 3), Expand(v1))
    ELSE <<Zero, Zero, Zero>>

\* Mutant of Lut1: without four colours the midpoint is transparent too.
Lut1_clear_midpoint(v0, v1) ==
    <<Expand(v0) \o <<One>>,
      Expand(v1) \o <<One>>,
      Colour2(v0, v1) \o <<IF FourColour(v0, v1) THEN One ELSE Zero>>,
      Colour3(v0, v1) \o <<IF FourColour(v0, v1) THEN One ELSE Zero>> >>

\* Color lookup of the DXT1 decoders: (r, g, b, a) of the four codes.
Lut1(v0, v1) ==
    <<Expand(v0) \o <<One>>,
      Expand(v1) \o <<One>>,
      Colour2(v0, v1) \o <<One>>,
      Colour3(v0, v1) \o <<IF FourColour(v0, v1) THEN One ELSE Zero>> >>

\* Color lookup of the DXT5 decoders: (r, g, b) of the four codes.
Lut5(v0, v1) ==
    <<Expand(v0), Expand(v1), Colour2(v0, v1), Colour3(v0, v1)>>

\* ca * a0 + cb * a1 with the endpoints divided by 255.
AlphaMix(ca, a0, cb, a1) == QAdd(QMul(ca, Q(a0, 255)), QMul(cb, Q(a1, 255)))

\* Mutant of Alut: equal endpoints take the eight-level ramp.
Alut_eight_levels_on_equal(a0, a1) ==
    IF a0 >= a1
    THEN <<Q(a0, 255), Q(a1, 255),
           AlphaMix(Q(6, 7), a0, Q(1, 7), a1),
           AlphaMix(Q(5, 7), a0, Q(2, 7), a1),
           AlphaMix(Q(4, 7), a0, Q(3, 7), a1),
           AlphaMix(Q(3, 7), a0, Q(4, 7), a1),
           AlphaMix(Q(2, 7), a0, Q(5, 7), a1),
           AlphaMix(Q(1, 7), a0, Q(6, 7), a1)>>
    ELSE <<Q(a0, 255), Q(a1, 255),
           AlphaMix(Q(4, 5), a0, Q(1, 5), a1),
           AlphaMix(Q(3, 5), a0, Q(2, 5), a1),
           AlphaMix(Q(2, 5), a0, Q(3, 5), a1),
           AlphaMix(Q(1, 5), a0, Q(4, 5), a1),
           Zero, One>>

\* Alpha lookup of the DXT5 decoders.
Alut(a0, a1) ==
    IF a0 > a1
    THEN <<Q(a0, 255), Q(a1, 255),
           AlphaMix(Q(6, 7), a0, Q(1, 7), a1),
           AlphaMix(Q(5, 7), a0, Q(2, 7), a1),
           AlphaMix(Q(4, 7), a0, Q(3, 7), a1),
           AlphaMix(Q(3, 7), a0, Q(4, 7), a1),
           AlphaMix(Q(2, 7), a0, Q(5, 7), a1),
           AlphaMix(Q(1, 7), a0, Q(6, 7), a1)>>
    ELSE <<Q(a0, 255), Q(a1, 255),
           AlphaMix(Q(4, 5), a0, Q(1, 5), a1),
           AlphaMix(Q(3, 5), a0, Q(2, 5), a1),
           AlphaMix(Q(2, 5), a0, Q(3, 5), a1),
           AlphaMix(Q(1, 5), a0, Q(4, 5), a1),
           Zero, One>>

\* Mutant of Codes: the code of texel (row, col) is read at (col, row).
Codes_transposed(tbl) ==
    [i \in 0..15 |-> Field(tbl, 2 * ((4 * (i % 4)) + (i \div 4)), 2)]

\* Color codes: codes[pix] = table >> (2 * pix) & 0x3.
Codes(tbl) == [i \in 0..15 |-> Field(tbl, 2 * i, 2)]

\* Alpha codes: acodes[pix] = atable >> (3 * pix) & 0x7.
ACodes(atbl) == [i \in 0..15 |-> Field(atbl \o <<0, 0>>, 3 * i, 3)]

\* Everything the decoder f derives from the bytes b of one block.
Unpack(f, b) ==
    LET c == IF IsDxt5(f) THEN SubSeq(b, 9, 16) ELSE b
        v0 == U16(c, 0)
        v1 == U16(c, 2)
    IN  [bytes |-> b, v0 |-> v0, v1 |-> v1,
         codes |-> Codes(SubSeq(c, 5, 8)),
         lut |-> IF IsDxt5(f) THEN Lut5(v0, v1) ELSE Lut1(v0, v1),
         a0 |-> IF IsDxt5(f) THEN b[1] ELSE 0,
         a1 |-> IF IsDxt5(f) THEN b[2] ELSE 0,
         acodes |-> IF IsDxt5(f) THEN ACodes(SubSeq(b, 3, 8))
                    ELSE [i \in 0..15 |-> 0],
         alut |-> IF IsDxt5(f) THEN Alut(b[1], b[2]) ELSE <<>>]

\* (r, g, b, a) of texel pix of an unpacked block.
Texel(f, u, pix) ==
    IF IsDxt5(f)
    THEN u.lut[u.codes[pix] + 1] \o <<u.alut[u.acodes[pix] + 1]>>
    ELSE u.lut[u.codes[pix] + 1]

\* Mutant of PixelIndex: compression.py starts one row too high.
PixelIndex_row_off_by_one(f, w, h, brow, bcol, row, col) ==
    IF IsPaa(f)
    THEN ((brow * 4) + row) * w + (bcol * 4) + col
    ELSE ((h - brow * 4) - row) * w + (bcol * 4) + col

\* Mutant of PixelIndex: compression.py stores the rows top to bottom.
PixelIndex_top_down(f, w, h, brow, bcol, row, col) ==
    ((brow * 4) + row) * w + (bcol * 4) + col

\* Flattened index (from 0) of the pixel of texel (row, col) of block
\* (brow, bcol): bottom-to-top rows in compression.py, top-to-bottom rows in
\* paa/_encoding.py.
PixelIndex(f, w, h, brow, bcol, row, col) ==
    IF IsPaa(f)
    THEN ((brow * 4) + row) * w + (bcol * 4) + col
    ELSE ((h - brow * 4) - row - 1) * w + (bcol * 4) + col

\* array[idx] = v of Python on an array of n items: the item stored (from
\* 0), or -1 when the store raises IndexError.
StoreIndex(idx, n) ==
    IF idx >= n \/ idx < 0 - n THEN -1
    ELSE IF idx < 0 THEN idx + n ELSE idx

\* The indices at which block k stores its 16 texels are all in the arrays.
InBounds(f, w, h, k) ==
    \A t \in 0..15 :
        StoreIndex(PixelIndex(f, w, h, k \div (w \div 4), k % (w \div 4),
                              t \div 4, t % 4), w * h) >= 0

\* The pixel indices block k stores to, texel by texel (idx of the code; idx
\* before its multiplication by 4 in paa/_encoding.py).
BlockStores(f, w, h, k) ==
    [i \in 1..16 |-> PixelIndex(f, w, h, k \div (w \div 4), k % (w \div 4),
                                (i - 1) \div 4, (i - 1) % 4)]

\* Block interpretation: the float arrays after the stores of texels t..15 of
\* block k.  compression.py fills four arrays (red, green, blue, alpha),
\* paa/_encoding.py one array of four floats per pixel.
RECURSIVE WriteBlock(_, _, _, _, _, _, _)
WriteBlock(f, b, w, h, k, u, t) ==
    IF t > 15 THEN b
    ELSE LET idx == StoreIndex(
                        PixelIndex(f, w, h, k \div (w \div 4), k % (w \div 4),
                                   t \div 4, t % 4), w * h)
             v == Texel(f, u, t)
         IN  WriteBlock(f,
                        IF IsPaa(f)
                        THEN [b EXCEPT ![(idx * 4) + 1] = v[1],
                                       ![(idx * 4) + 2] = v[2],
                                       ![(idx * 4) + 3] = v[3],
                                       ![(idx * 4) + 4] = v[4]]
                        ELSE [b EXCEPT ![1][idx + 1] = v[1],
                                       ![2][idx + 1] = v[2],
                                       ![3][idx + 1] = v[3],
                                       ![4][idx + 1] = v[4]],
                        w, h, k, u, t + 1)

\* Mutant of BadResolution: only the width is checked.
BadResolution_width_only(w, h) == w % 4 # 0

\* The resolution check: TRUE when the decoder raises DxtError.
BadResolution(w, h) == w % 4 # 0 \/ h % 4 # 0

\* The check of the resolution and the allocation of the arrays.
DxtEnter ==
    /\ UNCHANGED notDxt
    /\ dpc = "entry"
    /\ UNCHANGED <<fn, width, height, dsize, dpos, blk, result, block, ddata,
                   stores>>
    /\ IF BadResolution(width, height)
       THEN /\ dpc' = "raised"
            /\ derr' = "DxtError"
            /\ buf' = buf
       ELSE /\ dpc' = "blocks"
            /\ derr' = derr
            /\ buf' = IF IsPaa(fn) THEN Floats(width * height * 4)
                      ELSE [c \in 1..4 |-> Floats(width * height)]

\* One iteration of the loops over brow and bcol.
DxtBlock ==
    /\ UNCHANGED notDxt
    /\ dpc = "blocks"
    /\ blk < (width \div 4) * (height \div 4)
    /\ UNCHANGED <<fn, width, height, dsize, result>>
    /\ IF dsize - dpos < BlockBytes(fn)
       THEN /\ dpc' = "raised"
            /\ derr' = "struct.error"
            /\ dpos' = dsize
            /\ UNCHANGED <<blk, buf, block, ddata, stores>>
       ELSE \E b \in Blocks(fn, width, height) :
               /\ dpos' = dpos + BlockBytes(fn)
               /\ ddata' = ddata \o b
               /\ block' = Unpack(fn, b)
               /\ IF InBounds(fn, width, height, blk)
                  THEN /\ buf' = WriteBlock(fn, buf, width, height, blk,
                                            block', 0)
                       /\ stores' = stores \o BlockStores(fn, width, height,
                                                           blk)
                       /\ blk' = blk + 1
                       /\ UNCHANGED <<dpc, derr>>
                  ELSE /\ dpc' = "raised"
                       /\ derr' = "IndexError"
                       /\ UNCHANGED <<blk, buf, stores>>

\* The return, after the last block.
DxtReturn ==
    /\ UNCHANGED notDxt
    /\ dpc = "blocks"
    /\ blk = (width \div 4) * (height \div 4)
    /\ dpc' = "done"
    /\ result' = IF IsPaa(fn) THEN [j \in 1..Len(buf) |-> ToByte(buf[j])]
                 ELSE buf
    /\ UNCHANGED <<fn, width, height, dsize, dpos, blk, buf, derr, block,
                   ddata, stores>>

NoBlock == [bytes |-> <<>>]

\* Widths and heights: the multiples of 4 of at most MaxBlocks blocks, and
\* sizes that are no multiple of 4.
Sizes == {4 * k : k \in 0..MaxBlocks} \cup {1, 5, 6, 8}

\* Stream sizes: empty, one DXT1 block, a truncated and a whole DXT5 block,
\* MaxBlocks DXT5 blocks without and with a byte after them, and the four
\* DXT5 blocks of the square texture.
StreamSizes == {0, 8, 15, 16, 16 * MaxBlocks, 16 * MaxBlocks + 1, 64}

DxtIdle ==
    /\ fn = "none"
    /\ dpc = "idle"
    /\ width = 0
    /\ height = 0
    /\ dsize = 0
    /\ dpos = 0
    /\ blk = 0
    /\ buf = <<>>
    /\ result = <<>>
    /\ derr = "none"
    /\ block = NoBlock
    /\ ddata = <<>>
    /\ stores = <<>>

InitDxt ==
    /\ fn \in Decoders
    /\ dpc = "entry"
    /\ width \in Sizes
    /\ height \in Sizes
    /\ (width \div 4) * (height \div 4) <= MaxBlocks \/ IsSquare(width, height)
    /\ dsize \in StreamSizes
    /\ dpos = 0
    /\ blk = 0
    /\ buf = <<>>
    /\ result = <<>>
    /\ derr = "none"
    /\ block = NoBlock
    /\ ddata = <<>>
    /\ stores = <<>>

NextDxt ==
    \/ DxtEnter
    \/ DxtBlock
    \/ DxtReturn

LzoIdle ==
    /\ pc = "idle"
    /\ x = 0
    /\ state = 0
    /\ output = <<>>
    /\ length = 0
    /\ start = 0
    /\ pos = 0
    /\ size = 0
    /\ expected_length = 0
    /\ err = "none"
    /\ ret = -1
    /\ op = NoOp
    /\ data = <<>>
    /\ markerEnd = -1

(***************************************************************************)
(* RtmFile (src/src/armaio/rtm/_rtm.py).  An RtmProperty is the tuple      *)
(* <<phase, name, value>>, names and values being numbers ordered as       *)
(* Python orders the strings.  An RtmFrame is the tuple <<phase, bones,    *)
(* id>>: its phase, the keys of its transforms in order, and the identity  *)
(* of the object.  The matrices of a frame play no part in RtmFile.        *)
(***************************************************************************)
MaxItems == 3      \* most properties and frames of a file, together

Phases == {0, 1}
PropNames == {1, 2}
BoneNames == {"bone1", "bone2"}
FrameIds == {1, 2}
None == "None"

\* Tuples of at most n items of S.
TuplesUpTo(S, n) == UNION {[1..k -> S] : k \in 0..n}

\* RtmProperty(phase, name, value)
RtmProperties == {<<p, n, 1>> : p \in Phases, n \in PropNames}

\* Bone lists as a file stores them: none, one, two in either order, and a
\* repeated name.
BoneTuples ==
    {<<>>, <<"bone1">>, <<"bone1", "bone2">>, <<"bone2", "bone1">>,
     <<"bone1", "bone1">>}

\* len(set(bones)) != len(bones)
Duplicates(b) == Cardinality({b[i] : i \in 1..Len(b)}) # Len(b)

\* RtmFrame(phase, bones): the frames that can be constructed.
RtmFrames ==
    {<<p, b, i>> : p \in Phases, b \in {t \in BoneTuples : ~Duplicates(t)},
                   i \in FrameIds}

\* bisect_right on the keys of a list: the insertion point of key x.
RECURSIVE bisect_right(_, _, _, _)
bisect_right(keys, k, lo, hi) ==
    IF lo < hi
    THEN LET mid == (lo + hi) \div 2
         IN  IF k < keys[mid + 1] THEN bisect_right(keys, k, lo, mid)
             ELSE bisect_right(keys, k, mid + 1, hi)
    ELSE lo

\* Mutant of insort: the item is appended.
insort_append(a, item) == Append(a, item)

\* insort(a, item, key=lambda x: x.phase)
insort(a, item) ==
    LET i == bisect_right([j \in 1..Len(a) |-> a[j][1]], item[1], 0, Len(a))
    IN  SubSeq(a, 1, i) \o <<item>> \o SubSeq(a, i + 1, Len(a))

\* sorted(a, key=lambda x: x.phase) and sorted(a): stable sorts, by the phase
\* and by the whole tuple.
TupleLess(p, q) ==
    \/ p[1] < q[1]
    \/ p[1] = q[1] /\ p[2] < q[2]
    \/ p[1] = q[1] /\ p[2] = q[2] /\ p[3] < q[3]
RECURSIVE sorted_by_phase(_)
sorted_by_phase(a) ==
    IF a = <<>> THEN <<>>
    ELSE LET front == sorted_by_phase(SubSeq(a, 1, Len(a) - 1))
             last == a[Len(a)]
             n == Cardinality({i \in 1..Len(front) : front[i][1] <= last[1]})
         IN  SubSeq(front, 1, n) \o <<last>> \o SubSeq(front, n + 1, Len(front))
RECURSIVE sorted(_)
sorted(a) ==
    IF a = <<>> THEN <<>>
    ELSE LET front == sorted(SubSeq(a, 1, Len(a) - 1))
             last == a[Len(a)]
             n == Cardinality({i \in 1..Len(front) :
                                  ~TupleLess(last, front[i])})
         IN  SubSeq(front, 1, n) \o <<last>> \o SubSeq(front, n + 1, Len(front))

\* The item list.pop(idx) removes from a list of n items (from 0), or -1 when
\* it raises IndexError.
PopIndex(idx, n) ==
    IF idx >= n \/ idx < 0 - n THEN -1
    ELSE IF idx < 0 THEN idx + n ELSE idx

\* The list without item i (from 0).
Without(a, i) == SubSeq(a, 1, i) \o SubSeq(a, i + 2, Len(a))

\* The properties of RtmFile.
Bones == bones
Properties == sorted_by_phase(props)
Frames == sorted_by_phase(frames)

\* The record of a call.
Call(name, idx, arg, e, r) ==
    [name |-> name, idx |-> idx, arg |-> arg, err |-> e, ret |-> r]
NoCall == Call("none", 0, <<>>, "none", <<>>)

\* Mutant of BonesDiffer: the order of the names is not compared.
BonesDiffer_any_order(frame_bones, file_bones) ==
    \/ file_bones = None
    \/ Len(frame_bones) # Len(file_bones)
    \/ {frame_bones[i] : i \in 1..Len(frame_bones)}
         # {file_bones[i] : i \in 1..Len(file_bones)}

\* frame_bones != self._bones
BonesDiffer(frame_bones, file_bones) == frame_bones # file_bones

\* add_frame on the frame list fs and the bones bs: what it leaves and
\* raises.
add_frame(fs, bs, frame) ==
    IF Len(fs) = 0
    THEN [frames |-> <<frame>>, bones |-> frame[2], err |-> "none"]
    ELSE IF BonesDiffer(frame[2], bs)
    THEN [frames |-> fs, bones |-> bs, err |-> "ValueError"]
    ELSE [frames |-> insort(fs, frame), bones |-> bs, err |-> "none"]

\* The items of a, added one by one from item k on.
RECURSIVE AddProperties(_, _, _)
AddProperties(ps, a, k) ==
    IF k > Len(a) THEN ps
    ELSE AddProperties(insort(ps, a[k]), a, k + 1)
RECURSIVE AddFrames(_, _, _)
AddFrames(st, a, k) ==
    IF k > Len(a) \/ st.err # "none" THEN st
    ELSE AddFrames(add_frame(st.frames, st.bones, a[k]), a, k + 1)

\* The keys of the dictionary RtmFrame.read builds from the names it reads.
RECURSIVE Keys(_)
Keys(names) ==
    IF names = <<>> THEN <<>>
    ELSE LET front == Keys(SubSeq(names, 1, Len(names) - 1))
             last == names[Len(names)]
         IN  IF \E i \in 1..Len(front) : front[i] = last THEN front
             ELSE Append(front, last)

\* RtmFrame.read(stream, bones) raises RtmError: bones with a repeated name,
\* or names in the stream other than bones.
FrameReadFails(file_bones, names) ==
    Duplicates(file_bones) \/ file_bones # Keys(names)

\* RtmFile()
Construct ==
    /\ UNCHANGED notRtm
    /\ origin = "none"
    /\ origin' = "RtmFile"
    /\ props' = <<>>
    /\ frames' = <<>>
    /\ bones' = None
    /\ rop' = Call("RtmFile", 0, <<>>, "none", <<>>)

\* The call raised before there was an RtmFile.
Failed(name, e) ==
    /\ origin' = "failed"
    /\ rop' = Call(name, 0, <<>>, e, <<>>)
    /\ UNCHANGED <<props, frames, bones>>

\* RtmFile.read(stream), from what the stream holds: whether it starts with
\* the RTM_MDAT block and its properties, the signature that is read next,
\* the bones, and of every frame the phase and the bone names; eof tells
\* whether and how the stream ends before read is through.
Read ==
    /\ UNCHANGED notRtm
    /\ origin = "none"
    /\ \E mdat \in BOOLEAN, signature \in {"RTM_0101", "RTM_MDAT", "other"},
          eof \in {"no", "struct.error", "EOFError"},
          ps \in TuplesUpTo(RtmProperties, MaxItems), bs \in BoneTuples :
          \E fs \in TuplesUpTo(Phases \X [1..Len(bs) -> BoneNames],
                               MaxItems - Len(ps)) :
             /\ mdat \/ ps = <<>>
             /\ mdat \/ signature # "RTM_MDAT"
             /\ IF eof # "no" THEN Failed("read", eof)
                ELSE IF signature # "RTM_0101" THEN Failed("read", "RtmError")
                ELSE IF \E i \in 1..Len(fs) : FrameReadFails(bs, fs[i][2])
                THEN Failed("read", "RtmError")
                ELSE /\ origin' = "RtmFile"
                     /\ props' = sorted(ps)
                     /\ bones' = bs
                     /\ frames' = sorted_by_phase(
                                      [i \in 1..Len(fs) |->
                                          <<fs[i][1], Keys(fs[i][2]), i>>])
                     /\ rop' = Call("read", 0, <<>>, "none", <<>>)

\* RtmFile.from_binarized(bmtr, skeleton), from what the BmtrFile holds: its
\* properties, its bones and the phases of its frames (a BmtrFile with
\* frames has no repeated bone).
FromBinarized ==
    /\ UNCHANGED notRtm
    /\ origin = "none"
    /\ \E ps \in TuplesUpTo(RtmProperties, MaxItems), bs \in BoneTuples,
          phases \in TuplesUpTo(Phases, MaxItems) :
          /\ Len(ps) + Len(phases) <= MaxItems
          /\ phases = <<>> \/ ~Duplicates(bs)
          /\ LET st == AddFrames([frames |-> <<>>, bones |-> bs,
                                  err |-> "none"],
                                 [i \in 1..Len(phases) |-> <<phases[i], bs, i>>],
                                 1)
             IN  /\ origin' = "RtmFile"
                 /\ props' = AddProperties(<<>>, ps, 1)
                 /\ frames' = st.frames
                 /\ bones' = st.bones
                 /\ rop' = Call("from_binarized", 0, <<>>, st.err, <<>>)

\* There is an RtmFile.
Exists == origin = "RtmFile"

\* RtmFile.add_property(phase, name, value)
AddProperty ==
    /\ UNCHANGED notRtm
    /\ Exists
    /\ Len(props) + Len(frames) < MaxItems
    /\ \E item \in RtmProperties :
          /\ props' = insort(props, item)
          /\ rop' = Call("add_property", 0, item, "none", <<>>)
    /\ UNCHANGED <<origin, frames, bones>>

\* RtmFile.pop_property(idx)
PopProperty ==
    /\ UNCHANGED notRtm
    /\ Exists
    /\ \E idx \in (0 - Len(props) - 1)..Len(props) :
          LET i == PopIndex(idx, Len(props))
          IN  IF i < 0
              THEN /\ rop' = Call("pop_property", idx, <<>>, "IndexError", <<>>)
                   /\ props' = props
              ELSE /\ rop' = Call("pop_property", idx, <<>>, "none",
                                  props[i + 1])
                   /\ props' = Without(props, i)
    /\ UNCHANGED <<origin, frames, bones>>

\* RtmFile.add_frame(frame)
AddFrame ==
    /\ UNCHANGED notRtm
    /\ Exists
    /\ \E frame \in RtmFrames :
          LET st == add_frame(frames, bones, frame)
          IN  /\ Len(props) + Len(st.frames) <= MaxItems
              /\ frames' = st.frames
              /\ bones' = st.bones
              /\ rop' = Call("add_frame", 0, frame, st.err, <<>>)
    /\ UNCHANGED <<origin, props>>

\* RtmFile.pop_frame(idx)
PopFrame ==
    /\ UNCHANGED notRtm
    /\ Exists
    /\ \E idx \in (0 - Len(frames) - 1)..Len(frames) :
          LET i == PopIndex(idx, Len(frames))
          IN  IF i < 0
              THEN /\ rop' = Call("pop_frame", idx, <<>>, "IndexError", <<>>)
                   /\ UNCHANGED <<frames, bones>>
              ELSE /\ rop' = Call("pop_frame", idx, <<>>, "none",
                                  frames[i + 1])
                   /\ frames' = Without(frames, i)
                   /\ bones' = IF Len(frames') = 0 THEN None ELSE bones
    /\ UNCHANGED <<origin, props>>

RtmIdle ==
    /\ origin = "idle"
    /\ props = <<>>
    /\ frames = <<>>
    /\ bones = None
    /\ rop = NoCall

InitRtm ==
    /\ origin = "none"
    /\ props = <<>>
    /\ frames = <<>>
    /\ bones = None
    /\ rop = NoCall

NextRtm ==
    \/ Construct
    \/ Read
    \/ FromBinarized
    \/ AddProperty
    \/ PopProperty
    \/ AddFrame
    \/ PopFrame

(***************************************************************************)
(* The LZ-Flag decompressor, decompress_lz_flag(input, expected_length,    *)
(* checksum_signed).  The repository has no source of it; it is modelled   *)
(* from section 4.2 of the specification.  Two points the specification    *)
(* leaves open are fixed here: a backreference copy ends when the output   *)
(* reaches expected_length, and offset 0 is not fed to the decompressor.   *)
(***************************************************************************)
Filler == 32

\* Flag bytes: all literals, all backreferences, and mixed.
FlagBytes == {255, 0, 5}
\* Literal bytes, below and above 128.
LiteralBytes == {1, 200}
\* The two bytes of a backreference: offsets 1, 2 and 5, lengths 3 and 4.
OffsetBytes == {1, 2, 5}
LengthBytes == {0, 1}

\* The 4 bytes (little endian) of a 32-bit value, and the value a byte adds
\* to the sum: the byte, or the byte as a signed 8-bit value.
Term(b, signed) ==
    LET v == IF signed /\ b >= 128 THEN b + 65280 ELSE b
        hi == IF signed /\ b >= 128 THEN 255 ELSE 0
    IN  <<v % 256, v \div 256, hi, hi>>

\* The running sum after output byte b, modulo 2^32.
AddToSum(sum, b, signed) ==
    LET t == Term(b, signed)
        c1 == (sum[1] + t[1]) \div 256
        c2 == (sum[2] + t[2] + c1) \div 256
        c3 == (sum[3] + t[3] + c2) \div 256
    IN  <<(sum[1] + t[1]) % 256, (sum[2] + t[2] + c1) % 256,
          (sum[3] + t[3] + c2) % 256, (sum[4] + t[4] + c3) % 256>>

RECURSIVE SumOver(_, _, _)
SumOver(sum, bytes, signed) ==
    IF bytes = <<>> THEN sum
    ELSE SumOver(AddToSum(sum, bytes[1], signed), Tail(bytes), signed)

\* Mutant of Mismatch: only the low byte of the checksum is compared.
Mismatch_low_byte(read, sum) == read[1] # sum[1]

\* The comparison of the checksum read with the running sum: TRUE when the
\* call fails.
Mismatch(read, sum) == read # sum

\* The backreference of offset and len, copied byte by byte onto out until
\* expected_length: positions before the start of the output read as the
\* filler.
RECURSIVE CopyBack(_, _, _)
CopyBack(out, offset, len) ==
    IF len = 0 \/ Len(out) >= fexpected THEN out
    ELSE LET src == Len(out) - offset
         IN  CopyBack(Append(out, IF src < 0 THEN Filler ELSE out[src + 1]),
                      offset, len - 1)

\* Where the decompressor goes after a unit.
AfterUnit(out, b) ==
    IF Len(out) >= fexpected THEN "checksum"
    ELSE IF b >= 8 THEN "flag" ELSE "unit"

\* The input ends before the bytes a step needs.
Truncated ==
    /\ fpc' = "raised"
    /\ ferr' = "Truncated"
    /\ fpos' = fsize
    /\ UNCHANGED <<foutput, flag, bit, fsum, checksum, fret>>

\* The loop test, and the read of the next flag byte.
FlagByte ==
    /\ UNCHANGED notFlag
    /\ fpc = "flag"
    /\ UNCHANGED <<fexpected, checksum_signed, fsize>>
    /\ IF Len(foutput) >= fexpected
       THEN /\ fpc' = "checksum"
            /\ UNCHANGED <<foutput, flag, bit, fpos, fsum, checksum, ferr,
                           fret>>
       ELSE IF fsize - fpos < 1 THEN Truncated
       ELSE \E b \in FlagBytes :
               /\ flag' = b
               /\ bit' = 0
               /\ fpos' = fpos + 1
               /\ fpc' = "unit"
               /\ UNCHANGED <<foutput, fsum, checksum, ferr, fret>>

\* One unit: a literal if the next bit of the flag byte (from the lowest) is
\* set, a backreference otherwise.
Unit ==
    /\ UNCHANGED notFlag
    /\ fpc = "unit"
    /\ UNCHANGED <<fexpected, checksum_signed, fsize, flag, checksum, fret>>
    /\ IF (flag \div Pow2(bit)) % 2 = 1
       THEN IF fsize - fpos < 1 THEN Truncated
            ELSE \E b \in LiteralBytes :
                    /\ foutput' = Append(foutput, b)
                    /\ fsum' = AddToSum(fsum, b, checksum_signed)
                    /\ fpos' = fpos + 1
                    /\ bit' = bit + 1
                    /\ fpc' = AfterUnit(foutput', bit')
                    /\ ferr' = ferr
       ELSE IF fsize - fpos < 2 THEN Truncated
            ELSE \E b1 \in OffsetBytes, b2 \in LengthBytes :
                    LET offset == b1 + 256 * (b2 \div 16)
                        len == (b2 % 16) + 3
                    IN  /\ foutput' = CopyBack(foutput, offset, len)
                        /\ fsum' = SumOver(fsum,
                                           SubSeq(foutput', Len(foutput) + 1,
                                                  Len(foutput')),
                                           checksum_signed)
                        /\ fpos' = fpos + 2
                        /\ bit' = bit + 1
                        /\ fpc' = AfterUnit(foutput', bit')
                        /\ ferr' = ferr

\* The value of a 32-bit sum of the model's bounds, as 4 bytes.
Bytes4(v) ==
    <<v % 256, (v \div 256) % 256, (v \div 65536) % 256,
      (v \div 16777216) % 256>>
RECURSIVE Total(_, _)
Total(bytes, signed) ==
    IF bytes = <<>> THEN 0
    ELSE (IF signed /\ bytes[1] >= 128 THEN bytes[1] - 256 ELSE bytes[1])
           + Total(Tail(bytes), signed)

\* Checksums the input may end with: that of the output, of the other
\* variant, and of every output that differs from it in one byte.
Checksums ==
    {Bytes4(Total(foutput, checksum_signed)),
     Bytes4(Total(foutput, ~checksum_signed)), <<0, 0, 0, 0>>}
      \cup {Bytes4(Total([foutput EXCEPT ![i] = b], checksum_signed)) :
               i \in 1..Len(foutput), b \in {0, 1, 200, 255}}

\* The read of the trailing checksum and its comparison.
Checksum ==
    /\ UNCHANGED notFlag
    /\ fpc = "checksum"
    /\ UNCHANGED <<fexpected, checksum_signed, fsize, foutput, flag, bit,
                   fsum>>
    /\ IF fsize - fpos < 4
       THEN /\ fpc' = "raised"
            /\ ferr' = "Truncated"
            /\ fpos' = fsize
            /\ UNCHANGED <<checksum, fret>>
       ELSE \E read \in Checksums :
               /\ checksum' = read
               /\ fpos' = fpos + 4
               /\ IF Mismatch(read, fsum)
                  THEN /\ fpc' = "raised"
                       /\ ferr' = "ChecksumMismatch"
                       /\ fret' = fret
                  ELSE /\ fpc' = "done"
                       /\ ferr' = ferr
                       /\ fret' = fpos'

FlagIdle ==
    /\ fpc = "idle"
    /\ foutput = <<>>
    /\ fexpected = 0
    /\ checksum_signed = FALSE
    /\ flag = 0
    /\ bit = 0
    /\ fpos = 0
    /\ fsize = 0
    /\ fsum = <<0, 0, 0, 0>>
    /\ checksum = <<>>
    /\ ferr = "none"
    /\ fret = -1

InitFlag ==
    /\ fpc = "flag"
    /\ foutput = <<>>
    /\ fexpected \in 0..MaxExpected
    /\ checksum_signed \in BOOLEAN
    /\ flag = 0
    /\ bit = 0
    /\ fpos = 0
    /\ fsize \in 0..(MaxStream + 4)
    /\ fsum = <<0, 0, 0, 0>>
    /\ checksum = <<>>
    /\ ferr = "none"
    /\ fret = -1

NextFlag ==
    \/ FlagByte
    \/ Unit
    \/ Checksum

(***************************************************************************)
(* TexHeadersFile (src/src/armaio/texheaders/__init__.py) and the colour   *)
(* TAGGs of a PAA file (src/src/armaio/paa/_format.py).  A PAA file is     *)
(* what from_paa uses of it: its path relative to the root, the 4 bytes of *)
(* its average and maximum colour TAGGs in stream order (<<>> without the  *)
(* TAGG), the PaaAlphaFlag of its flag TAGG (None without) and whether it  *)
(* has an offsets TAGG.  A record is what the file keeps of it: the path   *)
(* and the fields from_paa computes from the TAGGs.                        *)
(***************************************************************************)
PaaFiles ==
    {[path |-> 1, avg |-> <<255, 255, 255, 255>>, max |-> <<255, 255, 255, 255>>,
      flag |-> "INTERPOLATED", offsets |-> TRUE],
     [path |-> 1, avg |-> <<127, 0, 0, 0>>, max |-> <<>>,
      flag |-> "INTERPOLATED", offsets |-> TRUE],
     [path |-> 2, avg |-> <<126, 0, 0, 0>>, max |-> <<>>,
      flag |-> "INTERPOLATED", offsets |-> TRUE],
     [path |-> 2, avg |-> <<128, 1, 2, 3>>, max |-> <<4, 3, 2, 1>>,
      flag |-> "BINARY", offsets |-> TRUE],
     [path |-> 2, avg |-> <<127, 0, 0, 0>>, max |-> <<>>,
      flag |-> None, offsets |-> TRUE],
     [path |-> 3, avg |-> <<1, 0, 0, 0>>, max |-> <<>>,
      flag |-> "NONE", offsets |-> TRUE],
     [path |-> 1, avg |-> <<>>, max |-> <<>>,
      flag |-> "INTERPOLATED", offsets |-> TRUE],
     [path |-> 2, avg |-> <<126, 0, 0, 0>>, max |-> <<>>,
      flag |-> "INTERPOLATED", offsets |-> FALSE]}

\* PaaAverageColorTagg.read and PaaMaxColorTagg.read on the 4 data bytes b:
\* data = read_ulong(stream) is b[1] + 256 * b[2] + 65536 * b[3] +
\* 16777216 * b[4], and the TAGG is
\* ((data >> 1) & 255, (data >> 2) & 255, data >> 3, data & 255).
ReadColor(b) ==
    <<(b[1] \div 2) + ((b[2] % 2) * 128),
      (b[1] \div 4) + ((b[2] % 4) * 64),
      (b[1] \div 8) + (b[2] * 32) + (b[3] * 8192) + (b[4] * 2097152),
      b[1]>>

\* TexHeadersRecord.from_paa(filepath, root, paa): the record, or in err the
\* exception it raises.
from_paa(paa) ==
    IF paa.avg = <<>> THEN [err |-> "TexHeadersError"]
    ELSE IF ~paa.offsets THEN [err |-> "TexHeadersError"]
    ELSE LET color_avg == ReadColor(paa.avg)
         IN  [path |-> paa.path,
              color_average |-> color_avg,
              color_max |-> IF paa.max = <<>> THEN <<255, 255, 255, 255>>
                            ELSE ReadColor(paa.max),
              maxcolor_defined |-> paa.max # <<>>,
              alpha_interpolated |-> paa.flag = "INTERPOLATED",
              alpha_binary |-> paa.flag = "BINARY",
              non_opaque |-> paa.flag = "INTERPOLATED" /\ color_avg[4] < 128]

\* The records a texHeaders.bin file holds and add_texture is given.
TexRecords ==
    {rec \in {from_paa(paa) : paa \in PaaFiles} : "err" \notin DOMAIN rec}

\* TexHeadersFile()
TexConstruct ==
    /\ UNCHANGED notTex
    /\ torigin = "none"
    /\ torigin' = "TexHeadersFile"
    /\ textures' = <<>>
    /\ paths' = {}
    /\ top' = Call("TexHeadersFile", 0, <<>>, "none", <<>>)

\* TexHeadersFile.read(stream), from what the stream holds: its signature,
\* its version and its records.
TexRead ==
    /\ UNCHANGED notTex
    /\ torigin = "none"
    /\ \E signature \in {"0DHT", "other"}, version \in {1, 2},
          recs \in TuplesUpTo(TexRecords, MaxItems - 1) :
          IF signature # "0DHT" \/ version # 1
          THEN /\ torigin' = "failed"
               /\ top' = Call("read", 0, <<>>, "TexHeadersError", <<>>)
               /\ UNCHANGED <<textures, paths>>
          ELSE /\ torigin' = "TexHeadersFile"
               /\ textures' = recs
               /\ paths' = {recs[i].path : i \in 1..Len(recs)}
               /\ top' = Call("read", 0, recs, "none", <<>>)

\* The records from_directory appends for the files fs from file k on, and
\* the exception that ends it.
RECURSIVE Appended(_, _, _, _)
Appended(st, fs, k, strict) ==
    IF k > Len(fs) \/ st.err # "none" THEN st
    ELSE LET rec == from_paa(fs[k])
         IN  Appended(IF "err" \notin DOMAIN rec
                      THEN [textures |-> Append(st.textures, rec),
                            err |-> "none"]
                      ELSE [textures |-> st.textures,
                            err |-> IF strict THEN rec.err ELSE "none"],
                      fs, k + 1, strict)

\* TexHeadersFile.from_directory(dirpath, strict), from the PAA files the
\* walk of the directory finds, in its order.
FromDirectory ==
    /\ UNCHANGED notTex
    /\ torigin = "none"
    /\ \E strict \in BOOLEAN, fs \in TuplesUpTo(PaaFiles, MaxItems - 1) :
          LET st == Appended([textures |-> <<>>, err |-> "none"], fs, 1,
                             strict)
          IN  IF st.err # "none"
              THEN /\ torigin' = "failed"
                   /\ top' = Call("from_directory", 0, fs, st.err, <<>>)
                   /\ UNCHANGED <<textures, paths>>
              ELSE /\ torigin' = "TexHeadersFile"
                   /\ textures' = st.textures
                   /\ paths' = {}
                   /\ top' = Call("from_directory", 0, fs, "none", <<>>)

\* TexHeadersFile.add_texture(tex)
AddTexture ==
    /\ UNCHANGED notTex
    /\ torigin = "TexHeadersFile"
    /\ Len(textures) < MaxItems
    /\ \E tex \in TexRecords :
          IF tex.path \in paths
          THEN /\ top' = Call("add_texture", 0, tex, "ValueError", <<>>)
               /\ UNCHANGED <<textures, paths>>
          ELSE /\ paths' = paths \cup {tex.path}
               /\ textures' = Append(textures, tex)
               /\ top' = Call("add_texture", 0, tex, "none", <<>>)
    /\ UNCHANGED torigin

\* TexHeadersFile.pop_texture(idx)
PopTexture ==
    /\ UNCHANGED notTex
    /\ torigin = "TexHeadersFile"
    /\ \E idx \in (0 - Len(textures) - 1)..Len(textures) :
          LET i == PopIndex(idx, Len(textures))
          IN  IF i < 0
              THEN /\ top' = Call("pop_texture", idx, <<>>, "IndexError", <<>>)
                   /\ UNCHANGED <<textures, paths>>
              ELSE /\ textures' = Without(textures, i)
                   /\ IF textures[i + 1].path \in paths
                      THEN /\ paths' = paths \ {textures[i + 1].path}
                           /\ top' = Call("pop_texture", idx, <<>>, "none",
                                          textures[i + 1])
                      ELSE /\ paths' = paths
                           /\ top' = Call("pop_texture", idx, <<>>,
                                          "KeyError", <<>>)
    /\ UNCHANGED torigin

TexIdle ==
    /\ torigin = "idle"
    /\ textures = <<>>
    /\ paths = {}
    /\ top = NoCall

(***************************************************************************)
(* P3dLod.read and P3dLod.validate (src/src/armaio/p3d/__init__.py).  Of a *)
(* LOD the model keeps the numbers of vertices and normals and of every    *)
(* face its vertex and normal indices; of a TAGG in the stream its active  *)
(* byte, its name, its length field and what its validate looks at.  The   *)
(* stream position is counted in whole TAGGs: _read_tagg reads the name    *)
(* of the TAGG at the position, seeks back to its start, and the read      *)
(* method of the TAGG's class then reads all of it.  The TAGGs are chosen  *)
(* when the position first reaches them and are kept in pstream, so that   *)
(* a TAGG read again is the same TAGG.                                     *)
(***************************************************************************)
P3dLods ==
    {[verts |-> 3, normals |-> 3,
      faces |-> <<[vertices |-> <<0, 1, 2>>, normals |-> <<0, 1, 2>>]>>],
     [verts |-> 3, normals |-> 1,
      faces |-> <<[vertices |-> <<0, 1, 2>>, normals |-> <<0, 0, 0>>]>>],
     [verts |-> 3, normals |-> 3,
      faces |-> <<[vertices |-> <<0, 1, 2>>, normals |-> <<0, 1, 5>>]>>],
     [verts |-> 2, normals |-> 3,
      faces |-> <<[vertices |-> <<0, 1, 2>>, normals |-> <<0, 0, 0>>]>>],
     [verts |-> 4, normals |-> 4,
      faces |-> <<[vertices |-> <<0, 1, 2, 3>>, normals |-> <<0, 1, 2, 3>>]>>],
     [verts |-> 0, normals |-> 0, faces |-> <<>>]}

\* edges of a #SharpEdges# TAGG are its vertex index pairs, uvs of a #UVSet#
\* TAGG is the number of its coordinates.
P3dTaggs ==
    {[active |-> 1, name |-> "#EndOfFile#", length |-> 0],
     [active |-> 1, name |-> "#EndOfFile#", length |-> 4],
     [active |-> 1, name |-> "#Property#", length |-> 128],
     [active |-> 0, name |-> "#Property#", length |-> 128],
     [active |-> 1, name |-> "#Mass#", length |-> 12],
     [active |-> 1, name |-> "#SharpEdges#", length |-> 8,
      edges |-> <<<<0, 9>>>>],
     [active |-> 1, name |-> "#UVSet#", length |-> 28, uvs |-> 3],
     [active |-> 1, name |-> "#UVSet#", length |-> 36, uvs |-> 4],
     [active |-> 1, name |-> "#Lock#", length |-> 0],
     [active |-> 1, name |-> "selection", length |-> 4]}

\* P3dLod.read(stream, keep_unknown_taggs) up to the TAGG loop, from what
\* the stream holds: the signature, the version, the vertices, the normals
\* and the faces (sides tells whether every face has 3 or 4 sides), and the
\* TAGG signature; eof tells whether the stream ends before the loop.
LodRead ==
    /\ UNCHANGED notP3d
    /\ ppc = "read"
    /\ \E signature \in {"P3DM", "other"}, version \in {"1c.100", "other"},
          body \in P3dLods, sides \in BOOLEAN,
          tagg_signature \in {"TAGG", "other"}, eof \in BOOLEAN :
          LET e == IF signature # "P3DM" \/ version # "1c.100"
                   THEN "P3dError"
                   ELSE IF eof THEN "struct.error"
                   ELSE IF ~sides THEN "AssertionError"
                   ELSE IF tagg_signature # "TAGG" THEN "P3dError"
                   ELSE "none"
          IN  /\ ppc' = IF e = "none" THEN "tagg" ELSE "raised"
              /\ lod' = IF e = "none" THEN body ELSE lod
              /\ perr' = e
    /\ UNCHANGED <<keep_unknown_taggs, taggs, pstream, ppos, tname, valid>>

\* _read_tagg up to the match statement: start = stream.tell(), the active
\* byte, name = read_asciiz(stream), stream.seek(start).  At the end of the
\* stream read(1) returns b"".
ReadTaggName ==
    /\ UNCHANGED notP3d
    /\ ppc = "tagg"
    /\ \/ /\ ppos < Len(pstream)
          /\ pstream' = pstream
       \/ /\ ppos = Len(pstream)
          /\ Len(pstream) < MaxItems
          /\ \E tagg \in P3dTaggs : pstream' = Append(pstream, tagg)
       \/ /\ ppos = Len(pstream)
          /\ pstream' = pstream
    /\ IF ppos = Len(pstream') \/ pstream'[ppos + 1].active # 1
       THEN /\ ppc' = "raised"
            /\ perr' = "AssertionError"
            /\ tname' = tname
       ELSE /\ ppc' = "match"
            /\ tname' = pstream'[ppos + 1].name
            /\ perr' = perr
    /\ UNCHANGED <<keep_unknown_taggs, lod, taggs, ppos, valid>>

\* _read_tagg from the match statement on, and what P3dLod.read does with
\* the TAGG: the read method of the class of the TAGG (eof tells whether
\* the stream ends within the TAGG), the append, and after #EndOfFile# the
\* resolution that ends P3dLod.read.  Of the names of P3dTaggs
\* _is_special_tagg holds for all but "selection".
ReadTagg ==
    /\ UNCHANGED notP3d
    /\ ppc = "match"
    /\ LET tagg == pstream[ppos + 1]
           count_faces == Len(lod.faces)
           known == tname \in {"#EndOfFile#", "#Property#", "#Mass#",
                               "#SharpEdges#", "#UVSet#"}
           special == tname # "selection"
       IN  IF ~known /\ special /\ ~keep_unknown_taggs
           THEN \* return None, and "continue" in P3dLod.read
                /\ ppc' = "tagg"
                /\ UNCHANGED <<taggs, ppos, perr>>
           ELSE \E eof \in BOOLEAN :
                IF eof
                THEN /\ ppc' = "raised"
                     /\ perr' = "struct.error"
                     /\ UNCHANGED <<taggs, ppos>>
                ELSE IF \/ tname = "#EndOfFile#" /\ tagg.length # 0
                        \/ tname = "#Property#" /\ tagg.length # 128
                        \/ tname = "#Mass#" /\ tagg.length # lod.verts * 4
                        \/ ~special /\ tagg.length # lod.verts + count_faces
                THEN /\ ppc' = "raised"
                     /\ perr' = "AssertionError"
                     /\ UNCHANGED <<taggs, ppos>>
                ELSE /\ taggs' = Append(taggs, tagg)
                     /\ ppos' = ppos + 1
                     /\ IF tname = "#EndOfFile#"
                        THEN \E resolution \in BOOLEAN :
                                IF resolution
                                THEN ppc' = "done" /\ perr' = perr
                                ELSE /\ ppc' = "raised"
                                     /\ perr' = "struct.error"
                        ELSE ppc' = "tagg" /\ perr' = perr
    /\ UNCHANGED <<keep_unknown_taggs, lod, pstream, tname, valid>>

\* tagg.validate(count_verts, count_tris, count_quads, strict=strict) of
\* the classes of TAGGs.
TaggValidate(tagg, count_verts, count_tris, count_quads, strict) ==
    CASE tagg.name = "#SharpEdges#" ->
            \/ ~strict
            \/ \A i \in 1..Len(tagg.edges) :
                  /\ 0 <= tagg.edges[i][1] /\ tagg.edges[i][1] < count_verts
                  /\ 0 <= tagg.edges[i][2] /\ tagg.edges[i][2] < count_verts
      [] tagg.name = "#UVSet#" ->
            tagg.uvs = (count_tris * 3) + (count_quads * 4)
      [] tagg.name = "#Mass#" -> tagg.length \div 4 = count_verts
      [] OTHER -> TRUE

\* P3dLod.validate(strict) on the LOD that P3dLod.read returned; it is also
\* what P3dFile.validate returns for the file of this one LOD.  The loop
\* over the faces pairs each vertex index with itself, zip(face.vertices,
\* face.vertices); the loop over the TAGGs calls validate on each and does
\* nothing with what it returns.
Validate ==
    /\ UNCHANGED notP3d
    /\ ppc = "done"
    /\ \E strict \in BOOLEAN :
          LET count_verts == lod.verts
              count_normals == lod.normals
              valid_vidx(idx) == 0 <= idx /\ idx < count_verts
              valid_nidx(idx) == 0 <= idx /\ idx < count_normals
          IN  valid' =
                 IF \E i \in 1..Len(lod.faces) :
                       LET face == lod.faces[i]
                           sides == Len(face.vertices)
                       IN  \/ sides \notin {3, 4}
                           \/ \E k \in 1..sides :
                                 LET vidx == face.vertices[k]
                                     nidx == face.vertices[k]
                                 IN  ~(valid_vidx(vidx) /\ valid_nidx(nidx))
                 THEN FALSE
                 ELSE TRUE
    /\ ppc' = "validated"
    /\ UNCHANGED <<keep_unknown_taggs, lod, taggs, pstream, ppos, tname, perr>>

P3dIdle ==
    /\ ppc = "idle"
    /\ keep_unknown_taggs = FALSE
    /\ lod = [verts |-> 0, normals |-> 0, faces |-> <<>>]
    /\ taggs = <<>>
    /\ pstream = <<>>
    /\ ppos = 0
    /\ tname = ""
    /\ perr = "none"
    /\ valid = FALSE

vars == <<lzoVars, dxtVars, rtmVars, flagVars, texVars, p3dVars>>

\* A call of lzo1x_decompress.
Init == InitLzo /\ DxtIdle /\ RtmIdle /\ FlagIdle
        /\ TexIdle /\ P3dIdle
Spec == Init /\ [][NextLzo]_vars

\* The DXT decoders, each on every texture size and stream of the model.
DxtInit == InitDxt /\ LzoIdle /\ RtmIdle /\ FlagIdle
        /\ TexIdle /\ P3dIdle
DxtSpec == DxtInit /\ [][NextDxt]_vars

\* An RtmFile from its creation on, under every sequence of calls.
RtmInit == InitRtm /\ LzoIdle /\ DxtIdle /\ FlagIdle
        /\ TexIdle /\ P3dIdle
RtmSpec == RtmInit /\ [][NextRtm]_vars

\* A call of the LZ-Flag decompressor.
FlagInit == InitFlag /\ LzoIdle /\ DxtIdle /\ RtmIdle
        /\ TexIdle /\ P3dIdle
FlagSpec == FlagInit /\ [][NextFlag]_vars

\* A TexHeadersFile from its creation on, under every sequence of calls.
TexInit ==
    /\ torigin = "none" /\ textures = <<>> /\ paths = {} /\ top = NoCall
    /\ LzoIdle /\ DxtIdle /\ RtmIdle /\ FlagIdle /\ P3dIdle
TexSpec ==
    /\ TexInit
    /\ [][TexConstruct \/ TexRead \/ FromDirectory \/ AddTexture
             \/ PopTexture]_vars

\* A call of P3dLod.read and of validate on the LOD it returns.  The code is
\* sequential: it always takes its next step.
P3dInit ==
    /\ ppc = "read"
    /\ keep_unknown_taggs \in BOOLEAN
    /\ lod = [verts |-> 0, normals |-> 0, faces |-> <<>>]
    /\ taggs = <<>> /\ pstream = <<>> /\ ppos = 0 /\ tname = ""
    /\ perr = "none" /\ valid = FALSE
    /\ LzoIdle /\ DxtIdle /\ RtmIdle /\ FlagIdle /\ TexIdle
P3dSpec ==
    /\ P3dInit
    /\ [][LodRead \/ ReadTaggName \/ ReadTagg \/ Validate]_vars
    /\ WF_vars(LodRead \/ ReadTaggName \/ ReadTagg)

\* lzo1x_decompress is sequential code: it always takes its next step.
LiveSpec ==
    /\ Init
    /\ [][NextLzo]_vars
    /\ WF_vars(NextLzo)

(***************************************************************************)
(* Properties of lzo1x_decompress                                          *)
(***************************************************************************)
Returned == pc = "done"
Raised == pc = "raised"
CopyKinds == {"literal", "match", "trailing"}
\* The copy recorded in op has just been executed by copy_match.
MatchDone == pc = "trail" /\ op.kind = "match"

\* C1: whenever lzo1x_decompress returns, the output buffer it returns has
\* exactly expected_length bytes.
C1_ReturnedLength == Returned => Len(output) = expected_length
C1_Witness == Returned /\ Len(output) >= 3 /\ Len(output) = expected_length

\* C2: the output never holds more than expected_length bytes, and a literal
\* run, match or trailing-literal copy that asks for more bytes than are free
\* raises LzoError with the output as it was before the copy.
C2_NoOverrun ==
    /\ Len(output) <= expected_length
    /\ (op.kind \in CopyKinds
            /\ op.length > expected_length - Len(op.before))
         => (Raised /\ err = "LzoError" /\ output = op.before)
C2_Witness ==
    /\ Raised
    /\ op.kind = "trailing"
    /\ Len(op.before) > 0
    /\ op.length = expected_length - Len(op.before) + 1

\* C3: a match with 1 <= distance <= n (n the output length before the copy)
\* appends length bytes, each equal to the byte distance positions before it,
\* and leaves the first n bytes unchanged.
C3_ByteByByte ==
    (MatchDone /\ 1 <= op.distance /\ op.distance <= Len(op.before))
      => LET n == Len(op.before)
         IN  /\ Len(output) = n + op.length
             /\ SubSeq(output, 1, n) = op.before
             /\ \A i \in 1..op.length :
                    output[n + i] = output[n + i - op.distance]
C3_Witness ==
    /\ MatchDone
    /\ op.distance = 2
    /\ op.length = 3
    /\ Len(op.before) >= 2
    /\ op.before[Len(op.before)] # op.before[Len(op.before) - 1]

\* C4 (as stated): decoding stops successfully only at a command of distance
\* 16384 and length 3, every command that yields distance 16384 with another
\* length raises LzoError, and nothing is decoded after the end marker.
C4_AnyCommandAtEndDistance ==
    /\ Returned => (op.distance = EndDistance /\ op.length = 3
                        /\ pos = markerEnd)
    /\ (op.distance = EndDistance /\ op.length # 3)
         => (Raised /\ err = "LzoError")
\* C4 (amended): the end marker is a command byte in 16..31 that yields
\* distance 16384 with length 3; decoding stops successfully only there, such
\* a command with another length raises LzoError, and after such a command
\* nothing more is decoded.
C4_EndMarker ==
    /\ Returned => (op.cmd \in 16..31 /\ op.distance = EndDistance
                        /\ op.length = 3 /\ pos = markerEnd)
    /\ (op.cmd \in 16..31 /\ op.distance = EndDistance /\ op.length # 3)
         => (Raised /\ err = "LzoError")
    /\ (op.cmd \in 16..31 /\ op.distance = EndDistance)
         => (Returned \/ Raised)
C4_Witness ==
    /\ Raised
    /\ err = "LzoError"
    /\ op.cmd \in 16..31
    /\ op.distance = EndDistance
    /\ op.length = 4
    /\ Len(output) = expected_length

\* C5: every failure of lzo1x_decompress, exhausted input included, is raised
\* as LzoError.
C5_FailuresAreLzoError == Raised => err = "LzoError"

\* C6: on success the consumed count is the number of bytes from the position
\* at call time up to and including the last byte of the end marker, and the
\* stream is left right after the end marker.
C6_Consumed ==
    Returned =>
        /\ ret = markerEnd - start
        /\ ret = Len(data)
        /\ pos = markerEnd
        /\ Len(data) >= 3
        /\ data[Len(data) - 2] \in 16..31
C6_Witness ==
    /\ Returned
    /\ start > 0
    /\ size > pos
    /\ Len(output) > 0

\* C7 (as stated): every backreference copy has a distance in 1..16383.
C7_DistanceBelowEnd == MatchDone => op.distance \in 1..16383
\* C7 (amended): every backreference copy has a distance in 1..49151.
C7_DistanceRange ==
    MatchDone => op.distance \in 1..(EndDistance + 8 * FarBit + 16383)
C7_Witness == MatchDone /\ op.distance = EndDistance + 8 * FarBit + 16383

\* C8: lzo1x_decompress terminates, and every iteration of the command loop
\* and of the loop of get_length consumes at least one input byte.
C8_Terminates ==
    /\ <>(Returned \/ Raised)
    /\ [][(pc' = "loop" \/ (pc = "get_length" /\ pc' = "get_length"))
            => (pos' > pos /\ Len(data') > Len(data))]_vars
C8_Witness ==
    /\ Raised
    /\ length >= 255
    /\ Len(output) > 0

(***************************************************************************)
(* Properties of the DXT decoders                                          *)
(***************************************************************************)
Dxt1Decoders == {"dxt1_decompress", "decode_dxt1"}

\* The float (r, g, b, a) stored for texel t of the k-th block decoded.
Stored(k, t) ==
    LET idx == PixelIndex(fn, width, height, k \div (width \div 4),
                          k % (width \div 4), t \div 4, t % 4)
    IN  IF IsPaa(fn)
        THEN <<buf[(4 * idx) + 1], buf[(4 * idx) + 2], buf[(4 * idx) + 3],
               buf[(4 * idx) + 4]>>
        ELSE <<buf[1][idx + 1], buf[2][idx + 1], buf[3][idx + 1],
               buf[4][idx + 1]>>

\* The fraction p equals n / d.
Is(p, n, d) == p[1] * d = n * p[2]

\* C9: a width or height that is no multiple of 4 makes every DXT decoder
\* raise DxtError before any decode work: nothing is read from the stream, no
\* block is decoded and nothing is returned.
C9_ResolutionChecked ==
    ((width % 4 # 0 \/ height % 4 # 0) /\ dpc # "entry")
      => /\ dpc = "raised"
         /\ derr = "DxtError"
         /\ dpos = 0
         /\ ddata = <<>>
         /\ blk = 0
         /\ buf = <<>>
         /\ result = <<>>
C9_Witness ==
    /\ dpc = "raised"
    /\ derr = "DxtError"
    /\ width = 4
    /\ height = 5
    /\ dsize >= 16

\* C10: in the DXT1 decoders, with the endpoints v0, v1 of a block expanded
\* as r = (v >> 11) / 31, g = ((v >> 5) & 63) / 63, b = (v & 31) / 31, a texel
\* of code 0 is c0, of code 1 is c1, of code 2 is (2 c0 + c1) / 3 if v0 > v1
\* and (c0 + c1) / 2 otherwise, all with alpha 1, and of code 3 is
\* (c0 + 2 c1) / 3 with alpha 1 if v0 > v1 and transparent black otherwise.
C10_Dxt1Ramp ==
    (fn \in Dxt1Decoders /\ dpc \in {"blocks", "done"})
      => \A k \in 0..(blk - 1), t \in 0..15 :
            LET o == 8 * k
                v0 == ddata[o + 1] + 256 * ddata[o + 2]
                v1 == ddata[o + 3] + 256 * ddata[o + 4]
                code == (ddata[o + 5 + (t \div 4)] \div Pow2(2 * (t % 4))) % 4
                c0 == <<v0 \div 2048, (v0 \div 32) % 64, v0 % 32>>
                c1 == <<v1 \div 2048, (v1 \div 32) % 64, v1 % 32>>
                den == <<31, 63, 31>>
                p == Stored(k, t)
            IN  CASE code = 0 ->
                       /\ \A i \in 1..3 : Is(p[i], c0[i], den[i])
                       /\ Is(p[4], 1, 1)
                  [] code = 1 ->
                       /\ \A i \in 1..3 : Is(p[i], c1[i], den[i])
                       /\ Is(p[4], 1, 1)
                  [] code = 2 /\ v0 > v1 ->
                       /\ \A i \in 1..3 :
                            Is(p[i], 2 * c0[i] + c1[i], 3 * den[i])
                       /\ Is(p[4], 1, 1)
                  [] code = 2 /\ ~(v0 > v1) ->
                       /\ \A i \in 1..3 : Is(p[i], c0[i] + c1[i], 2 * den[i])
                       /\ Is(p[4], 1, 1)
                  [] code = 3 /\ v0 > v1 ->
                       /\ \A i \in 1..3 :
                            Is(p[i], c0[i] + 2 * c1[i], 3 * den[i])
                       /\ Is(p[4], 1, 1)
                  [] code = 3 /\ ~(v0 > v1) ->
                       \A i \in 1..4 : Is(p[i], 0, 1)
C10_Witness ==
    /\ fn \in Dxt1Decoders
    /\ dpc = "done"
    /\ blk = 2
    /\ ddata[1] + 256 * ddata[2] > ddata[3] + 256 * ddata[4]
    /\ ddata[9] + 256 * ddata[10] = ddata[11] + 256 * ddata[12]
    /\ ddata[5] = 228
    /\ ddata[13] = 228

\* The decoder has passed the resolution check.
Decoded == dpc \in {"blocks", "done"}
Dxt5Decoders == {"dxt5_decompress", "decode_dxt5"}
CompressionDecoders == {"dxt1_decompress", "dxt5_decompress"}

\* Byte i (from 0) of the k-th block read, and the fields of that block as
\* the formats lay them out: alpha endpoints, 48 bits of alpha codes, colour
\* endpoints, 32 bits of colour codes.
BlockByte(k, i) == ddata[(IF fn \in Dxt5Decoders THEN 16 ELSE 8) * k + i + 1]
ColourAt == IF fn \in Dxt5Decoders THEN 8 ELSE 0
V0Of(k) == BlockByte(k, ColourAt) + 256 * BlockByte(k, ColourAt + 1)
V1Of(k) == BlockByte(k, ColourAt + 2) + 256 * BlockByte(k, ColourAt + 3)
CodeOf(k, t) ==
    (BlockByte(k, ColourAt + 4 + (t \div 4)) \div Pow2(2 * (t % 4))) % 4
A0Of(k) == BlockByte(k, 0)
A1Of(k) == BlockByte(k, 1)
ACodeOf(k, t) ==
    LET o == (3 * t) \div 8
        lo == BlockByte(k, 2 + o)
        hi == IF o < 5 THEN BlockByte(k, 3 + o) ELSE 0
    IN  ((lo + 256 * hi) \div Pow2((3 * t) % 8)) % 8
\* The channels of a packed endpoint, over the denominators 31, 63, 31.
Channels(v) == <<v \div 2048, (v \div 32) % 64, v % 32>>
Den == <<31, 63, 31>>

\* C11: every texel a DXT1 decoder has decoded has alpha 1.0 or 0.0, and 0.0
\* exactly for a texel of code 3 in a block whose first endpoint is not
\* greater than the second; the image returned has no other alpha.
C11_AlphaOpaqueOrClear ==
    (fn \in Dxt1Decoders /\ Decoded)
      => /\ \A k \in 0..(blk - 1), t \in 0..15 :
                LET a == Stored(k, t)[4]
                IN  /\ Is(a, 0, 1) \/ Is(a, 1, 1)
                    /\ Is(a, 0, 1) <=> (CodeOf(k, t) = 3 /\ V0Of(k) <= V1Of(k))
         /\ dpc = "done"
              => \A i \in 1..(width * height) :
                    IF IsPaa(fn) THEN result[4 * i] \in {0, 255}
                    ELSE result[4][i] \in {Zero, One}
C11_Witness ==
    /\ fn \in Dxt1Decoders
    /\ dpc = "done"
    /\ IsSquare(width, height)
    /\ \E k \in 0..(blk - 1), t \in 0..15 : Is(Stored(k, t)[4], 0, 1)
    /\ \E k \in 0..(blk - 1), t \in 0..15 : Is(Stored(k, t)[4], 1, 1)

\* C12 (as stated): in a DXT1 block of equal endpoints every texel of code 0
\* or 1 decodes to the same colour and every texel of code 2 or 3 decodes to
\* transparent black.
C12_MidpointTransparent ==
    (fn \in Dxt1Decoders /\ Decoded)
      => \A k \in 0..(blk - 1), t \in 0..15 :
            V0Of(k) = V1Of(k)
              => IF CodeOf(k, t) \in {0, 1}
                 THEN /\ \A i \in 1..3 :
                            Is(Stored(k, t)[i], Channels(V0Of(k))[i], Den[i])
                      /\ Is(Stored(k, t)[4], 1, 1)
                 ELSE \A i \in 1..4 : Is(Stored(k, t)[i], 0, 1)
\* C12 (amended): in a DXT1 block of equal endpoints every texel of code 0, 1
\* or 2 decodes to the same opaque colour, that of the endpoint, and every
\* texel of code 3 decodes to transparent black.
C12_EqualEndpoints ==
    (fn \in Dxt1Decoders /\ Decoded)
      => \A k \in 0..(blk - 1), t \in 0..15 :
            V0Of(k) = V1Of(k)
              => IF CodeOf(k, t) \in {0, 1, 2}
                 THEN /\ \A i \in 1..3 :
                            Is(Stored(k, t)[i], Channels(V0Of(k))[i], Den[i])
                      /\ Is(Stored(k, t)[4], 1, 1)
                 ELSE \A i \in 1..4 : Is(Stored(k, t)[i], 0, 1)
C12_Witness ==
    /\ fn \in Dxt1Decoders
    /\ dpc = "done"
    /\ blk > 0
    /\ V0Of(0) = V1Of(0)
    /\ V0Of(0) # 0
    /\ \A c \in 0..3 : \E t \in 0..15 : CodeOf(0, t) = c

\* C13: the DXT5 decoders compute colour 2 as (2 c0 + c1) / 3 and colour 3 as
\* (c0 + 2 c1) / 3 whatever the order of the packed endpoints v0 and v1.
C13_Dxt5FourColourAlways ==
    (fn \in Dxt5Decoders /\ Decoded)
      => \A k \in 0..(blk - 1), t \in 0..15 :
            LET c0 == Channels(V0Of(k))
                c1 == Channels(V1Of(k))
                p == Stored(k, t)
            IN  /\ CodeOf(k, t) = 2
                     => \A i \in 1..3 :
                            Is(p[i], 2 * c0[i] + c1[i], 3 * Den[i])
                /\ CodeOf(k, t) = 3
                     => \A i \in 1..3 :
                            Is(p[i], c0[i] + 2 * c1[i], 3 * Den[i])

\* C14: in the DXT5 decoders, with a0 and a1 the alpha endpoints of a block,
\* the alpha of a texel of alpha code 0 is a0 / 255 and of code 1 is a1 / 255;
\* if a0 > a1 code k in 2..7 gives ((8 - k) a0 + (k - 1) a1) / 7 / 255;
\* otherwise code k in 2..5 gives ((6 - k) a0 + (k - 1) a1) / 5 / 255, code 6
\* gives 0.0 and code 7 gives 1.0.
C14_AlphaRamp ==
    (fn \in Dxt5Decoders /\ Decoded)
      => \A k \in 0..(blk - 1), t \in 0..15 :
            LET a0 == A0Of(k)
                a1 == A1Of(k)
                c == ACodeOf(k, t)
                a == Stored(k, t)[4]
            IN  CASE c = 0 -> Is(a, a0, 255)
                  [] c = 1 -> Is(a, a1, 255)
                  [] c >= 2 /\ a0 > a1 ->
                       Is(a, (8 - c) * a0 + (c - 1) * a1, 7 * 255)
                  [] c \in 2..5 /\ ~(a0 > a1) ->
                       Is(a, (6 - c) * a0 + (c - 1) * a1, 5 * 255)
                  [] c = 6 /\ ~(a0 > a1) -> Is(a, 0, 1)
                  [] c = 7 /\ ~(a0 > a1) -> Is(a, 1, 1)
C14_Witness ==
    /\ fn \in Dxt5Decoders
    /\ dpc = "done"
    /\ blk = 2
    /\ A0Of(0) = 255
    /\ A1Of(0) = 0
    /\ \E t \in 0..15 : ACodeOf(0, t) = 4 /\ Stored(0, t)[4] = <<4, 7>>
    /\ A0Of(1) = A1Of(1)
    /\ \E t \in 0..15 : ACodeOf(1, t) = 7 /\ Stored(1, t)[4] = One

\* C15: for a width and a height that are multiples of 4 no store of the
\* block loops falls outside the output buffer, no pixel is stored to twice
\* (the regions of distinct blocks are disjoint), and when the decoder returns
\* every one of the width * height pixels has been stored to.
C15_EachPixelOnce ==
    (width % 4 = 0 /\ height % 4 = 0)
      => /\ \A i \in 1..Len(stores) : stores[i] \in 0..(width * height - 1)
         /\ Cardinality({stores[i] : i \in 1..Len(stores)}) = Len(stores)
         /\ Len(stores) = 16 * blk
         /\ derr # "IndexError"
         /\ dpc = "done" => Len(stores) = width * height
C15_Witness ==
    /\ dpc = "done"
    /\ IsSquare(width, height)
    /\ Len(stores) = 64

\* C16: dxt1_decompress and dxt5_decompress of compression.py store the texel
\* at column x = 4 bcol + col and row y = 4 brow + row of block scan order at
\* flat index (height - 1 - y) * width + x of each channel array returned.
C16_BottomToTop ==
    (fn \in CompressionDecoders /\ Decoded)
      => /\ \A k \in 0..(blk - 1) :
                LET n == BlockBytes(fn)
                    u == Unpack(fn, SubSeq(ddata, n * k + 1, n * k + n))
                IN  \A t \in 0..15 :
                        LET xx == 4 * (k % (width \div 4)) + (t % 4)
                            yy == 4 * (k \div (width \div 4)) + (t \div 4)
                            idx == (height - 1 - yy) * width + xx
                        IN  /\ stores[16 * k + t + 1] = idx
                            /\ \A c \in 1..4 :
                                    buf[c][idx + 1] = Texel(fn, u, t)[c]
         /\ dpc = "done" => result = buf
C16_Witness ==
    /\ fn \in CompressionDecoders
    /\ dpc = "done"
    /\ IsSquare(width, height)
    /\ stores[1] = 56
    /\ stores[64] = 7
    /\ buf[1][57] # buf[1][8]

(***************************************************************************)
(* Properties of RtmFile                                                   *)
(***************************************************************************)
\* The step is a call of the method name.
Called(name) == rop'.name = name

\* The phases of a tuple of properties or frames ascend.
Ascending(a) == \A i \in 1..(Len(a) - 1) : a[i][1] <= a[i + 1][1]

\* C18: every frame an RtmFile holds has the bone tuple the file shows as
\* bones, names and order; and add_frame of a frame whose bone tuple differs
\* from that of the frames held raises ValueError and leaves the frames and
\* bones as they were.
C18_FramesShareBones ==
    /\ [](Exists => \A i \in 1..Len(frames) : frames[i][2] = Bones)
    /\ [][(Called("add_frame") /\ Len(frames) > 0
              /\ rop'.arg[2] # frames[1][2])
            => (rop'.err = "ValueError" /\ frames' = frames
                  /\ bones' = bones)]_vars
C18_Witness ==
    /\ rop.name = "add_frame"
    /\ rop.err = "ValueError"
    /\ rop.arg[2] = <<"bone2", "bone1">>
    /\ Bones = <<"bone1", "bone2">>
    /\ Len(frames) = 2

\* C19: whenever there is an RtmFile, however it came to be, its bones are
\* None if and only if it holds no frames.
C19_BonesNoneIffNoFrames ==
    Exists => (Bones = None <=> Len(Frames) = 0)

\* C20: the properties and the frames an RtmFile shows are in ascending
\* phase order, and pop_property(i) (pop_frame(i)) removes and returns the
\* item properties[i] (frames[i]) showed before the call and leaves the other
\* items in their order.
C20_SortedAndPopped ==
    /\ [](Exists => (Ascending(Properties) /\ Ascending(Frames)))
    /\ [][(Called("pop_property") /\ PopIndex(rop'.idx, Len(Properties)) >= 0)
            => LET i == PopIndex(rop'.idx, Len(Properties))
               IN  /\ rop'.err = "none"
                   /\ rop'.ret = Properties[i + 1]
                   /\ Properties' = Without(Properties, i)
                   /\ Frames' = Frames]_vars
    /\ [][(Called("pop_frame") /\ PopIndex(rop'.idx, Len(Frames)) >= 0)
            => LET i == PopIndex(rop'.idx, Len(Frames))
               IN  /\ rop'.err = "none"
                   /\ rop'.ret = Frames[i + 1]
                   /\ Frames' = Without(Frames, i)
                   /\ Properties' = Properties]_vars
C20_Witness ==
    /\ rop.name = "pop_property"
    /\ rop.err = "none"
    /\ rop.idx = 1
    /\ rop.ret = <<0, 1, 1>>
    /\ props = << <<0, 2, 1>>, <<1, 1, 1>> >>

\* C17: the trailing 4 bytes are read only once the output has
\* expected_length bytes; the call returns only if they equal the sum of the
\* output bytes in the variant the caller selected, and every other value
\* read makes it fail with a checksum mismatch and return nothing.
C17_ChecksumVerified ==
    LET sum == Bytes4(Total(foutput, checksum_signed))
    IN  /\ checksum # <<>> => Len(foutput) = fexpected
        /\ fpc = "done" => checksum = sum /\ fret = fpos
        /\ checksum # <<>> /\ checksum # sum =>
              fpc = "raised" /\ ferr = "ChecksumMismatch" /\ fret = -1
        /\ fret # -1 => fpc = "done"

\* A call in the signed variant fails on a checksum that is the sum of an
\* output differing from the decoded one in a single byte.
C17_Witness ==
    /\ fpc = "raised"
    /\ ferr = "ChecksumMismatch"
    /\ checksum_signed
    /\ Len(foutput) = fexpected
    /\ \E i \in 1..Len(foutput) : \E b \in {0, 1, 200, 255} :
          /\ b # foutput[i]
          /\ checksum = Bytes4(Total([foutput EXCEPT ![i] = b], TRUE))

(***************************************************************************)
(* Further properties of lzo1x_decompress                                  *)
(***************************************************************************)
\* The copy recorded in op did not fail in check_free_space.
Copied(kind) == op.kind = kind /\ ~(Raised /\ err = "LzoError")

\* C24: the carried state is always in 0..4; it is 4 exactly after a literal
\* run or a first-byte literal of 4 or more bytes; right after a match it is
\* the low 2 bits of the command byte (of the distance word for command bytes
\* 16..63), and the copy that follows the match appends exactly that many
\* literal bytes from the input to the output.
C24_StateAndTrailing ==
    /\ [](/\ state \in 0..4
          /\ state = 4
               => (op.kind = "literal" /\ (op.cmd <= 15 \/ op.length >= 4))
          /\ Copied("literal")
               => state = (IF op.cmd <= 15 THEN 4 ELSE MinOf(4, op.length))
          /\ MatchDone
               => state = (IF op.cmd \in 16..63 THEN data[Len(data) - 1] % 4
                           ELSE op.cmd % 4))
    /\ [][pc = "trail"
            => \/ pc' = "raised" /\ err' = "LzoError" /\ output' = output
               \/ /\ pc' = "next"
                  /\ state \in 0..3
                  /\ state' = state
                  /\ Len(data') = Len(data) + state
                  /\ output' = output
                                 \o SubSeq(data', Len(data) + 1, Len(data'))]_vars

\* C25: a command byte x <= 15 is decoded by the carried state alone: with
\* state 0 as a literal run of 3 + L bytes, L = x if x # 0 and otherwise
\* 15 + 255 k + b for k zero bytes followed by the nonzero byte b (each zero
\* byte adds 255 to the length being accumulated, the nonzero byte ends it),
\* after which the state is 4; with state 1..3 as a match of 2 bytes at
\* distance (next_byte << 2) + (x >> 2) + 1; with state 4 as a match of 3
\* bytes at distance (next_byte << 2) + (x >> 2) + 2049.  A literal run is
\* never directly followed by another literal run.
C25_LowCommands ==
    [][(pc \in {"loop", "get_length"} /\ x <= 15 /\ Len(data') > Len(data))
         => LET b == data'[Len(data) + 1]
            IN  CASE state = 0 /\ pc = "loop" ->
                       /\ x # 0
                       /\ op'.kind = "literal"
                       /\ op.kind # "literal"
                       /\ op'.length = 3 + x
                       /\ pc' = "raised" \/ state' = 4
                  [] state = 0 /\ pc = "get_length" /\ b = 0 ->
                       /\ x = 0
                       /\ length' = length + 255
                       /\ pc' = "get_length"
                       /\ op' = op
                  [] state = 0 /\ pc = "get_length" /\ b # 0 ->
                       /\ x = 0
                       /\ length % 255 = 0
                       /\ op'.kind = "literal"
                       /\ op.kind # "literal"
                       /\ op'.length = 3 + 15 + length + b
                       /\ pc' = "raised" \/ state' = 4
                  [] state \in 1..3 ->
                       /\ pc = "loop"
                       /\ op'.kind = "match"
                       /\ op'.length = 2
                       /\ op'.distance = (b * 4) + (x \div 4) + 1
                       /\ Len(data') = Len(data) + 1
                  [] state = 4 ->
                       /\ pc = "loop"
                       /\ op'.kind = "match"
                       /\ op'.length = 3
                       /\ op'.distance = (b * 4) + (x \div 4) + 2049
                       /\ Len(data') = Len(data) + 1]_vars

\* A literal run of 3 + 15 + 255 + 1 bytes is decoded from the command byte
\* 0, one zero byte and the byte 1.
C25_Witness ==
    /\ op.kind = "literal"
    /\ op.cmd = 0
    /\ op.length = 274
    /\ length = 271
    /\ SubSeq(data, Len(data) - 2, Len(data)) = <<0, 0, 1>>

\* C26 (as stated): a command byte in 32..63 is decoded as a match of length
\* 2 or 3 and consumes exactly one following byte, a distance byte.
C26_ShortMatchOneByte ==
    [][(pc \in {"loop", "get_length"} /\ x \in 32..63 /\ op' # op)
         => /\ op'.kind = "match"
            /\ op'.length \in {2, 3}
            /\ Len(data') = Len(data) + 1
            /\ op'.distance = data'[Len(data')] + 1]_vars

\* C26 (amended): a command byte in 32..63 is decoded as a match of length
\* 2 + L, L being its low 5 bits or, when they are 0, the extended length
\* 31 + 255 k + b, so of at least 3 bytes; after the extension bytes it
\* consumes exactly two bytes, a little-endian 16-bit word whose upper 14
\* bits plus 1 are the distance and whose low 2 bits are the state.
C26_M3Match ==
    [][(pc \in {"loop", "get_length"} /\ x \in 32..63 /\ op' # op)
         => LET n == Len(data')
                extra == data'[n - 1] + 256 * data'[n]
            IN  /\ op'.kind = "match"
                /\ op'.cmd = x
                /\ IF pc = "loop"
                   THEN /\ x % 32 # 0
                        /\ op'.length = 2 + (x % 32)
                        /\ n = Len(data) + 2
                   ELSE /\ x % 32 = 0
                        /\ data'[n - 2] # 0
                        /\ op'.length = 2 + 31 + length + data'[n - 2]
                        /\ n = Len(data) + 3
                /\ op'.length >= 3
                /\ op'.distance = (extra \div 4) + 1
                /\ op'.distance \in 1..16384
                /\ state' = extra % 4]_vars

\* The command byte 34 with the distance word 0x0101 has copied 4 bytes from
\* distance 65.
C26_Witness ==
    /\ MatchDone
    /\ op.cmd = 34
    /\ op.length = 4
    /\ op.distance = 65
    /\ SubSeq(data, Len(data) - 2, Len(data)) = <<34, 1, 1>>
    /\ state = 1

\* C28: every match that lzo1x_decompress executes without raising appends
\* exactly length bytes, each equal to the byte distance positions before it,
\* also when the distance is greater than the number of bytes produced so
\* far.
C28_MatchAppendsLength ==
    MatchDone
      => LET n == Len(op.before)
         IN  /\ Len(output) = n + op.length
             /\ SubSeq(output, 1, n) = op.before
             /\ \A i \in 1..op.length :
                    /\ n + i - op.distance >= 1
                    /\ output[n + i] = output[n + i - op.distance]

(***************************************************************************)
(* Further properties of the DXT decoders                                  *)
(***************************************************************************)
\* C27: texel t = 4 * row + col of a block is given the colour of the ramp
\* that the 2 bits at 2t of the little-endian 32-bit code table select and,
\* in the DXT5 decoders, the alpha of the ramp that the 3 bits at 3t of the
\* little-endian 48-bit alpha table select; the two codes are selected
\* independently: the colour is that of the colour code whatever the alpha
\* code is, and the alpha that of the alpha code whatever the colour code is.
C27_TexelCodes ==
    Decoded
      => \A k \in 0..(blk - 1) :
            LET lut == IF fn \in Dxt5Decoders THEN Lut5(V0Of(k), V1Of(k))
                       ELSE Lut1(V0Of(k), V1Of(k))
                alut == IF fn \in Dxt5Decoders THEN Alut(A0Of(k), A1Of(k))
                        ELSE <<>>
            IN  \A t \in 0..15 :
                   LET p == Stored(k, t)
                   IN  /\ \A i \in 1..Len(lut[1]) :
                             p[i] = lut[CodeOf(k, t) + 1][i]
                       /\ fn \in Dxt5Decoders
                            => p[4] = alut[ACodeOf(k, t) + 1]

\* A DXT5 block with two texels of one colour code and different alpha codes,
\* stored with one colour and different alphas, and two texels of one alpha
\* code and different colour codes, stored with one alpha and different
\* colours.
C27_Witness ==
    /\ fn \in Dxt5Decoders
    /\ dpc = "done"
    /\ blk >= 1
    /\ \E t, u \in 0..15 :
          /\ CodeOf(0, t) = CodeOf(0, u)
          /\ ACodeOf(0, t) # ACodeOf(0, u)
          /\ SubSeq(Stored(0, t), 1, 3) = SubSeq(Stored(0, u), 1, 3)
          /\ Stored(0, t)[4] # Stored(0, u)[4]
    /\ \E t, u \in 0..15 :
          /\ CodeOf(0, t) # CodeOf(0, u)
          /\ ACodeOf(0, t) = ACodeOf(0, u)
          /\ SubSeq(Stored(0, t), 1, 3) # SubSeq(Stored(0, u), 1, 3)
          /\ Stored(0, t)[4] = Stored(0, u)[4]

(***************************************************************************)
(* Properties of TexHeadersFile and of the colour TAGGs                    *)
(***************************************************************************)
\* The index holds a record with this path.
Holds(path) == \E i \in 1..Len(textures) : textures[i].path = path

\* C21: in every state of the index that add_texture, pop_texture, read and
\* from_directory lead to, add_texture of a record whose path a record of
\* the index already has raises ValueError and leaves the index as it was;
\* and after add_texture no two records of textures have the same path.
C21_AddTextureRejectsDuplicates ==
    /\ [](top.name = "add_texture" =>
            \A i, j \in 1..Len(textures) :
               textures[i].path = textures[j].path => i = j)
    /\ [][top'.name = "add_texture" /\ Holds(top'.arg.path) =>
            /\ top'.err = "ValueError"
            /\ textures' = textures
            /\ paths' = paths]_vars

\* The PAA files of the from_directory call that has just returned, those
\* from_paa made a record of, in order.
RECURSIVE Recorded(_)
Recorded(fs) ==
    IF fs = <<>> THEN <<>>
    ELSE IF "err" \in DOMAIN from_paa(Head(fs)) THEN Recorded(Tail(fs))
    ELSE <<Head(fs)>> \o Recorded(Tail(fs))
FromPaa ==
    IF top.name = "from_directory" /\ top.err = "none"
    THEN Recorded(top.arg) ELSE <<>>

\* C22: the colour read from a colour TAGG has four components of 8 bits,
\* each one a byte of the 32-bit word and no two the same byte, so that the
\* word 0xFFFFFFFF reads as (255, 255, 255, 255): there is an order of the
\* four bytes in which every record from_paa makes has the bytes of the
\* average colour TAGG as color_average and the bytes of the maximum colour
\* TAGG as color_max.
C22_ColourFromDistinctBytes ==
    \E order \in Permutations(1..4) :
       \A i \in 1..Len(FromPaa) :
          LET paa == FromPaa[i]
              tex == textures[i]
          IN  /\ tex.color_average = [c \in 1..4 |-> paa.avg[order[c]]]
              /\ paa.max # <<>> =>
                    tex.color_max = [c \in 1..4 |-> paa.max[order[c]]]

\* C23: the record from_paa makes has non_opaque exactly when the flag TAGG
\* is INTERPOLATED and the alpha of the average colour is below 127.
C23_NonOpaqueBelow127 ==
    \A i \in 1..Len(FromPaa) :
       textures[i].non_opaque <=>
          /\ FromPaa[i].flag = "INTERPOLATED"
          /\ textures[i].color_average[4] < 127

(***************************************************************************)
(* Properties of P3dLod                                                    *)
(***************************************************************************)
\* P3dLod.read has returned or raised.
ReadEnded == ppc \in {"done", "raised", "validated"}
\* _read_tagg is at a special TAGG of a name it does not know.
AtUnknownTagg ==
    /\ ppc = "match"
    /\ tname \notin {"#EndOfFile#", "#Property#", "#Mass#", "#SharpEdges#",
                     "#UVSet#", "selection"}

\* C29: with the default options (keep_unknown_taggs False) P3dLod.read
\* terminates on every stream, returning or raising; a special TAGG of an
\* unknown name is skipped: nothing is appended for it, the stream position
\* moves past it and the loop goes on to the next TAGG.
C29_ReadTerminates ==
    /\ ~keep_unknown_taggs => <>ReadEnded
    /\ [][AtUnknownTagg /\ ~keep_unknown_taggs =>
             /\ ppc' = "tagg"
             /\ taggs' = taggs
             /\ ppos' = ppos + 1]_vars

\* The faces of the LOD with this many sides.
Count(sides) ==
    Cardinality({i \in 1..Len(lod.faces) : Len(lod.faces[i].vertices) = sides})

\* C30: validate returns True only if every face has 3 or 4 sides, every
\* vertex index of a face is below the number of vertices, every normal
\* index of a face is below the number of normals, and the validate of
\* every TAGG returns True (here without strict, which a TAGG that is
\* valid with strict also is).
C30_ValidateTrueOnlyIfValid ==
    ppc = "validated" /\ valid =>
       /\ \A i \in 1..Len(lod.faces) :
             LET face == lod.faces[i]
             IN  /\ Len(face.vertices) \in {3, 4}
                 /\ \A k \in 1..Len(face.vertices) :
                       0 <= face.vertices[k] /\ face.vertices[k] < lod.verts
                 /\ \A k \in 1..Len(face.normals) :
                       0 <= face.normals[k] /\ face.normals[k] < lod.normals
       /\ \A i \in 1..Len(taggs) :
             TaggValidate(taggs[i], lod.verts, Count(3), Count(4), FALSE)

====
